---- MODULE Spec2Model ----
(***************************************************************************)
(* Verification model of the colosseum agent hackathon analytics backend:  *)
(* the content classifier (collector.ts, simple-collector.js), the forum   *)
(* collector with its key ledger and message log (collector.ts and the     *)
(* collector endpoints of server-optimized.ts / server.ts) and the         *)
(* analytics read path (analytics-service.ts, realtime-analytics-service). *)
(***************************************************************************)
EXTENDS Integers, Sequences, FiniteSets, TLC

VARIABLES
  \* ---- classifier harness ----
  content,      \* the content string, as the set of marker substrings in it
  tsResult,     \* result of collector.ts analyzeAgentBehavior, or NoResult
  jsResult,     \* result of simple-collector.js analyzeAgentBehavior, or NoResult
  \* ---- aggregation (AnalyticsService.getTopAgents, updateAgentStatistics) ----
  conversations,   \* AnalyticsService.conversations: the loaded messages
  profiles,        \* the AgentProfile list last returned by getTopAgents
  foldPc,          \* "loaded" before getTopAgents has run, "queried" after
  dbConversations, \* rows of the conversations table
  agentsTable,     \* rows of the agents table, by agent_id
  dbCursor,        \* number of loaded messages already passed to
                   \* storeConversationToDatabase
  \* ---- collector (ForumDatasetCollector and the collector endpoints) ----
  upstream,           \* the posts and comments the forum API currently serves
  log,                \* lines of datasets/agent-conversations.jsonl
  collector,          \* server variable collector: a collector object, 0 = null
  collectionInterval, \* server variable collectionInterval is set
  timers,             \* number of live collection interval timers
  bootPc,             \* position of autoStartServices
  nCollectors,        \* ForumDatasetCollector objects constructed so far
  runs,               \* collectForumData invocations so far
  coll,               \* the fields and the run position of each collector object
  \* ---- analytics (AnalyticsService.loadData and its cache) ----
  fileMtime,       \* stats.mtimeMs of the log: the number of the last write
  lastLoadTime,    \* AnalyticsService.lastLoadTime
  cache,           \* AnalyticsService.cache, by key
  now,             \* Date.now() in ms since the service was constructed
  loads,           \* fileModTime of each loadData awaiting fs.readFile
  lastLoad,        \* what the last loadData to end did, and what was held before
  \* ---- the other Supabase tables ----
  interactions,    \* rows of agent_interactions
  storedMsgs,      \* the messages storeConversation has stored without error
  findings,        \* rows inserted into suspicious_patterns
  detectRun,       \* the sub-detectors the last detection run called / saw throw
  growthTable,     \* rows of agent_growth_tracking
  today,           \* CURRENT_DATE, in days
  metrics,         \* rows updateAllMetrics published to realtime_metrics
  conversationThreads, \* the history entries held for the thread of the one post
  converted,       \* the comment entries convertCommentToEntry has returned
  passed           \* the conversations the last collection callback handed to
                   \* storeConversationToDatabase

classifierVars == <<content, tsResult, jsResult>>

foldVars == <<conversations, profiles, foldPc, dbConversations, agentsTable, dbCursor>>

collectorVars == <<upstream, log, collector, collectionInterval, timers, bootPc,
                   nCollectors, runs, coll>>

analyticsVars == <<fileMtime, lastLoadTime, cache, now, loads, lastLoad>>

databaseVars == <<interactions, storedMsgs, findings, detectRun, growthTable, today,
                  metrics, conversationThreads, converted, passed>>

vars == <<content, tsResult, jsResult,
          conversations, profiles, foldPc, dbConversations, agentsTable, dbCursor,
          upstream, log, collector, collectionInterval, timers, bootPc,
          nCollectors, runs, coll,
          fileMtime, lastLoadTime, cache, now, loads, lastLoad,
          interactions, storedMsgs, findings, detectRun, growthTable, today,
          metrics, conversationThreads, converted, passed>>

NoResult == [pureAgentScore |-> -1, humanControlScore |-> -1, analysisReason |-> <<>>]

(***************************************************************************)
(* A content string is modelled by the marker substrings that occur in it. *)
(* includes() and RegExp.test() only ask whether some alternative occurs   *)
(* as a substring, so a pattern is the set of words that contain one of    *)
(* its alternatives.                                                       *)
(***************************************************************************)
Vocabulary ==
  {"##", "500 LOC", "99.5%", "45ms", "API", "GitHub",
   "lol", "i think", "we built", "excited", "hello"}

\* content.includes of a heading marker, a bold marker or a code fence
\* (the code fence, three backticks, is written "fence" here)
StructuredMarkers == {"##", "**", "fence"}

\* the five technicalPatterns, in source order
TechnicalPatterns ==
  << {"500 LOC", "lines of code"},        \* digits, then lines of code or LOC
     {"99.5%"},                           \* a decimal percentage
     {"45ms", "seconds", "minutes"},      \* digits then ms, or seconds, or minutes
     {"API", "SDK", "REST", "JSON"},
     {"GitHub", "repo", "repository"} >>

\* casualPatterns of collector.ts (four patterns)
CasualPatternsTs ==
  << {"lol", "haha"}, {"tbh", "honestly", "personally"},
     {"i think", "i feel", "in my opinion"}, {"btw", "by the way"} >>

\* casualPatterns of simple-collector.js (two patterns)
CasualPatternsJs == << {"lol", "haha"}, {"tbh", "honestly", "personally"} >>

\* agentPatterns of simple-collector.js (the apostrophe of the first
\* alternative is left out)
AgentPatternsJs ==
  << {"were building", "we built", "our system"},
     {"autonomous", "algorithmic", "real-time"},
     {"would love to", "interested in collaborating"} >>

\* emotionalPatterns of simple-collector.js
EmotionalPatternsJs == << {"excited", "thrilled", "frustrated"}, {"love this", "hate when"} >>

\* pattern.test(content)
Test(pattern, c) == (pattern \cap c) # {}

\* patterns.filter(p => p.test(content)).length
MatchCount(patterns, c) == Cardinality({i \in DOMAIN patterns : Test(patterns[i], c)})

\* Math.round(num / den * 100) for non-negative num, den > 0 (half rounds up)
RoundPercent(num, den) == (200 * num + den) \div (2 * den)

\* Math.max(0, Math.min(100, x))
Clamp(x) == IF x < 0 THEN 0 ELSE IF x > 100 THEN 100 ELSE x

Bump(cond, n) == IF cond THEN n ELSE 0

Tag(cond, t) == IF cond THEN <<t>> ELSE <<>>

\* a plausible slip: the human score is left as the raw score
NormalizeScoresKeepRaw(pure, human) ==
  [pureAgentScore |-> RoundPercent(pure, pure + human), humanControlScore |-> human]

\* pure = round(pure / total * 100); human = 100 - pure
NormalizeScores(pure, human) ==
  [pureAgentScore |-> RoundPercent(pure, pure + human),
   humanControlScore |-> 100 - RoundPercent(pure, pure + human)]

\* ForumDatasetCollector.analyzeAgentBehavior (collector.ts)
AnalyzeAgentBehaviorTs(c) ==
  LET structured == Test(StructuredMarkers, c)
      technical  == MatchCount(TechnicalPatterns, c) >= 2
      casual     == MatchCount(CasualPatternsTs, c) >= 1
      pure       == Clamp(50 + Bump(structured, 10) + Bump(technical, 15))
      human      == Clamp(50 + Bump(casual, 15))
      reasons    == Tag(structured, "structured_formatting")
                    \o Tag(technical, "technical_precision")
                    \o Tag(casual, "casual_language")
      scores     == IF pure + human > 0 THEN NormalizeScores(pure, human)
                    ELSE [pureAgentScore |-> pure, humanControlScore |-> human]
  IN  [pureAgentScore |-> scores.pureAgentScore,
       humanControlScore |-> scores.humanControlScore,
       analysisReason |-> IF reasons = <<>> THEN <<"neutral_baseline">> ELSE reasons]

\* analyzeAgentBehavior (simple-collector.js)
AnalyzeAgentBehaviorJs(c) ==
  LET structured == Test(StructuredMarkers, c)
      technical  == MatchCount(TechnicalPatterns, c) >= 2
      agentLang  == MatchCount(AgentPatternsJs, c) >= 1
      casual     == MatchCount(CasualPatternsJs, c) >= 1
      emotional  == MatchCount(EmotionalPatternsJs, c) >= 1
      pure       == 50 + Bump(structured, 10) + Bump(technical, 15) + Bump(agentLang, 10)
      human      == 50 + Bump(casual, 15) + Bump(emotional, 12)
      reasons    == Tag(structured, "structured_formatting")
                    \o Tag(technical, "technical_precision")
                    \o Tag(agentLang, "agent_language_patterns")
                    \o Tag(casual, "casual_language")
                    \o Tag(emotional, "emotional_expression")
      scores     == NormalizeScores(pure, human)
  IN  [pureAgentScore |-> scores.pureAgentScore,
       humanControlScore |-> scores.humanControlScore,
       analysisReason |-> IF reasons = <<>> THEN <<"neutral">> ELSE reasons]

----------------------------------------------------------------------------
(* Classifier harness: every content over the vocabulary, both classifiers *)

\* the aggregation state before any message is loaded or stored
FoldParked ==
  /\ conversations = <<>>
  /\ profiles = <<>>
  /\ foldPc = "loaded"
  /\ dbConversations = {}
  /\ agentsTable = <<>>
  /\ dbCursor = 0

NoLoad == [kind |-> "none", read |-> <<>>, held |-> <<>>]

NoEntry == [data |-> <<>>, timestamp |-> -1, ttl |-> 0]

CacheKeys == {"overview", "behavior"}

\* private cache = new Map(), lastLoadTime = 0
AnalyticsParked ==
  /\ fileMtime = 0
  /\ lastLoadTime = 0
  /\ cache = [k \in CacheKeys |-> NoEntry]
  /\ now = 0
  /\ loads = {}
  /\ lastLoad = NoLoad

NoRun == [count |-> 0, called |-> {}, threw |-> {}]

\* updateAllMetrics has not published yet
NoMetrics == <<>>

\* empty tables
DatabaseParked ==
  /\ interactions = {}
  /\ storedMsgs = {}
  /\ passed = <<>>
  /\ converted = {}
  /\ conversationThreads = <<>>
  /\ metrics = NoMetrics
  /\ findings = <<>>
  /\ detectRun = NoRun
  /\ growthTable = {}
  /\ today = 0

\* the server before it listens: no collector object, no timer, empty log
CollectorParked ==
  /\ upstream = {}
  /\ log = <<>>
  /\ collector = 0
  /\ collectionInterval = FALSE
  /\ timers = 0
  /\ bootPc = "off"
  /\ nCollectors = 0
  /\ runs = 0
  /\ coll = <<>>

InitClassifier ==
  /\ content \in SUBSET Vocabulary
  /\ tsResult = NoResult
  /\ jsResult = NoResult
  /\ FoldParked
  /\ CollectorParked
  /\ AnalyticsParked
  /\ DatabaseParked

\* collector.ts classifies the content (convertPostToEntry / convertCommentToEntry)
ClassifyTs ==
  /\ tsResult = NoResult
  /\ tsResult' = AnalyzeAgentBehaviorTs(content)
  /\ UNCHANGED <<content, jsResult>>
  /\ UNCHANGED foldVars
  /\ UNCHANGED collectorVars
  /\ UNCHANGED analyticsVars
  /\ UNCHANGED databaseVars

\* simple-collector.js classifies the content
ClassifyJs ==
  /\ jsResult = NoResult
  /\ jsResult' = AnalyzeAgentBehaviorJs(content)
  /\ UNCHANGED <<content, tsResult>>
  /\ UNCHANGED foldVars
  /\ UNCHANGED collectorVars
  /\ UNCHANGED analyticsVars
  /\ UNCHANGED databaseVars

NextClassify == ClassifyTs \/ ClassifyJs

SpecClassify == InitClassifier /\ [][NextClassify]_vars

----------------------------------------------------------------------------
(* Claims about the classifier *)

Range(seq) == {seq[i] : i \in DOMAIN seq}

ScorePairOk(r) ==
  /\ r.pureAgentScore \in 0..100
  /\ r.humanControlScore \in 0..100
  /\ r.pureAgentScore + r.humanControlScore = 100

\* C5: for every content string the classifier (collector.ts and
\* simple-collector.js alike) returns integer scores, each within 0..100,
\* with pureAgentScore + humanControlScore = 100.
C5_ScoresSumTo100 ==
  /\ tsResult # NoResult => ScorePairOk(tsResult)
  /\ jsResult # NoResult => ScorePairOk(jsResult)

\* C5 witness: both classifiers have scored a content in which pure and human
\* heuristics fired together (structured + technical + casual).
C5_Witness ==
  /\ {"##", "API", "GitHub", "lol"} \subseteq content
  /\ tsResult # NoResult /\ tsResult.pureAgentScore = 54
  /\ jsResult # NoResult /\ jsResult.humanControlScore < 50

\* The five content signals of the specified algorithm.
SigStructured(c) == Test(StructuredMarkers, c)
SigTechnical(c)  == MatchCount(TechnicalPatterns, c) >= 2
SigAgentLang(c)  == MatchCount(AgentPatternsJs, c) >= 1
SigCasual(c)     == MatchCount(CasualPatternsTs, c) >= 1
SigEmotional(c)  == MatchCount(EmotionalPatternsJs, c) >= 1

\* The specified algorithm: 50/50, +10 +15 +10 to pure, +15 +12 to human,
\* pure = round(rawPure / (rawPure + rawHuman) * 100), human = 100 - pure.
SpecifiedScores(c) ==
  LET rawPure  == 50 + Bump(SigStructured(c), 10) + Bump(SigTechnical(c), 15)
                     + Bump(SigAgentLang(c), 10)
      rawHuman == 50 + Bump(SigCasual(c), 15) + Bump(SigEmotional(c), 12)
      pure     == RoundPercent(rawPure, rawPure + rawHuman)
  IN  [pureAgentScore |-> pure, humanControlScore |-> 100 - pure]

SpecifiedTags(c) ==
  LET fired == {t \in {"structured_formatting", "technical_precision",
                       "agent_language_patterns", "casual_language",
                       "emotional_expression"} :
                  \/ t = "structured_formatting" /\ SigStructured(c)
                  \/ t = "technical_precision" /\ SigTechnical(c)
                  \/ t = "agent_language_patterns" /\ SigAgentLang(c)
                  \/ t = "casual_language" /\ SigCasual(c)
                  \/ t = "emotional_expression" /\ SigEmotional(c)}
  IN  IF fired = {} THEN {"neutral_baseline"} ELSE fired

FollowsSpecifiedAlgorithm(r, c) ==
  /\ r.pureAgentScore = SpecifiedScores(c).pureAgentScore
  /\ r.humanControlScore = SpecifiedScores(c).humanControlScore
  /\ Range(r.analysisReason) = SpecifiedTags(c)
  /\ (SigStructured(c) /\ SigTechnical(c)) =>
        (r.pureAgentScore > 50 \/ SigCasual(c) \/ SigEmotional(c))
  /\ (SigCasual(c) \/ SigEmotional(c)) /\ ~SigStructured(c) /\ ~SigTechnical(c)
        /\ ~SigAgentLang(c) => r.humanControlScore > 50

\* C6: for every combination of the five content signals the classifier
\* returns the result of the specified algorithm (scores and reason tags);
\* stated for the classifier the server runs, collector.ts.
C6_ClassifierFollowsAlgorithm ==
  tsResult # NoResult => FollowsSpecifiedAlgorithm(tsResult, content)

----------------------------------------------------------------------------
(* Aggregation: AnalyticsService.getTopAgents over the loaded messages,    *)
(* and RealtimeAnalyticsService.storeConversationToDatabase with           *)
(* updateAgentStatistics over the conversations table.                     *)
(* avgPureScore / avgHumanScore of a profile are held in tenths (the code  *)
(* rounds to one decimal), avg_pure_score / avg_human_score of an agents   *)
(* row in hundredths (the column is NUMERIC(5,2)).                         *)

MaxMessages == 4

AgentIds == {1, 2}

AgentName(id) == IF id = 1 THEN "A" ELSE "B"

MessageTypes == {"post", "comment"}

\* pureAgentScore values of the loaded messages; humanControlScore = 100 - pure
FoldScores == {50, 55}

MinOf(a, b) == IF a < b THEN a ELSE b

MaxOf(a, b) == IF a > b THEN a ELSE b

RECURSIVE SumField(_, _)
\* scores.reduce((a, b) => a + b, 0) over one field of a list of messages
SumField(seq, field) ==
  IF seq = <<>> THEN 0 ELSE seq[1][field] + SumField(Tail(seq), field)

RECURSIVE FoldMin(_, _)
\* if (conv.createdAt < existing.firstSeen) existing.firstSeen = conv.createdAt
FoldMin(seq, start) ==
  IF seq = <<>> THEN start ELSE FoldMin(Tail(seq), MinOf(seq[1].createdAt, start))

RECURSIVE FoldMax(_, _)
\* if (conv.createdAt > existing.lastSeen) existing.lastSeen = conv.createdAt
FoldMax(seq, start) ==
  IF seq = <<>> THEN start ELSE FoldMax(Tail(seq), MaxOf(seq[1].createdAt, start))

\* a plausible slip: truncating instead of rounding
TruncTenth(sum, n) == (10 * sum) \div n

\* Math.round(sum / n * 10) / 10, in tenths
RoundTenth(sum, n) == (20 * sum + n) \div (2 * n)

\* the value a NUMERIC(5,2) column keeps of sum / n, in hundredths
RoundHundredth(sum, n) == (200 * sum + n) \div (2 * n)

RECURSIVE AgentNamesInOrder(_, _)
\* the keys of agentMap, in insertion order
AgentNamesInOrder(seq, seen) ==
  IF seq = <<>> THEN <<>>
  ELSE IF seq[1].agentName \in seen THEN AgentNamesInOrder(Tail(seq), seen)
  ELSE <<seq[1].agentName>> \o AgentNamesInOrder(Tail(seq), seen \cup {seq[1].agentName})

MessagesOf(convs, name) == SelectSeq(convs, LAMBDA c : c.agentName = name)

IsPost(c) == c.type = "post"

IsComment(c) == c.type = "comment"

\* a plausible slip: every message that is not a post counted twice
ProfileOfMiscount(convs, name) ==
  LET ms == MessagesOf(convs, name)
  IN  [agentName     |-> name,
       agentId       |-> ms[1].agentId,
       totalMessages |-> Len(ms),
       posts         |-> Len(SelectSeq(ms, IsPost)),
       comments      |-> 2 * Len(SelectSeq(ms, IsComment)),
       avgPureScore  |-> RoundTenth(SumField(ms, "pureAgentScore"), Len(ms)),
       avgHumanScore |-> RoundTenth(SumField(ms, "humanControlScore"), Len(ms)),
       firstSeen     |-> FoldMin(Tail(ms), ms[1].createdAt),
       lastSeen      |-> FoldMax(Tail(ms), ms[1].createdAt)]

\* the agentMap entry of one agent, converted to an AgentProfile
ProfileOf(convs, name) ==
  LET ms == MessagesOf(convs, name)
  IN  [agentName     |-> name,
       agentId       |-> ms[1].agentId,
       totalMessages |-> Len(ms),
       posts         |-> Len(SelectSeq(ms, IsPost)),
       comments      |-> Len(SelectSeq(ms, IsComment)),
       avgPureScore  |-> RoundTenth(SumField(ms, "pureAgentScore"), Len(ms)),
       avgHumanScore |-> RoundTenth(SumField(ms, "humanControlScore"), Len(ms)),
       firstSeen     |-> FoldMin(Tail(ms), ms[1].createdAt),
       lastSeen      |-> FoldMax(Tail(ms), ms[1].createdAt)]

RECURSIVE InsertByTotal(_, _)
\* place p after every profile with at least as many messages (stable order)
InsertByTotal(p, sorted) ==
  IF sorted = <<>> THEN <<p>>
  ELSE IF sorted[1].totalMessages >= p.totalMessages
       THEN <<sorted[1]>> \o InsertByTotal(p, Tail(sorted))
       ELSE <<p>> \o sorted

RECURSIVE SortByTotalMessages(_)
\* agents.sort((a, b) => b.totalMessages - a.totalMessages), a stable sort
SortByTotalMessages(ps) ==
  IF ps = <<>> THEN <<>>
  ELSE InsertByTotal(ps[Len(ps)], SortByTotalMessages(SubSeq(ps, 1, Len(ps) - 1)))

\* AnalyticsService.getTopAgents(limit), computed from the held messages
GetTopAgents(convs, limit) ==
  LET names  == AgentNamesInOrder(convs, {})
      agents == [i \in DOMAIN names |-> ProfileOf(convs, names[i])]
      sorted == SortByTotalMessages(agents)
  IN  SubSeq(sorted, 1, MinOf(limit, Len(sorted)))

\* getTopAgents(10), the limit RealtimeAnalyticsService.updateAllMetrics asks for
TopAgentsLimit == 10

\* conversationContext?.replyToAgent is undefined
NoAgent == ""

\* new Date() and NOW() at a store call: later than every message's createdAt
NowStamp == 9

\* a column or field without a value, and one holding v
Null == <<>>

Val(v) == <<v>>

\* the row storeConversationToDatabase upserts for a message
ConversationRow(conv) ==
  [conversation_id     |-> conv.id,
   type                |-> conv.type,
   agent_id            |-> conv.agentId,
   pure_agent_score    |-> conv.pureAgentScore,
   human_control_score |-> conv.humanControlScore,
   post_id             |-> conv.postId,
   reply_to_agent      |-> conv.replyToAgent,
   created_at          |-> conv.createdAt]

\* the row collectForumData upserts for an entry: post_id is
\* entry.type === 'comment' ? entry.id : undefined
CollectorRow(entry) ==
  [ConversationRow(entry) EXCEPT
     !.post_id = IF entry.type = "comment" THEN Val(entry.id) ELSE Null]

\* supabase upsert into conversations, onConflict conversation_id
StoreConversation(rows, row) ==
  {r \in rows : r.conversation_id # row.conversation_id} \cup {row}

\* supabase upsert into agents, onConflict agent_id: a new row takes the
\* column defaults (counters and averages 0), an existing row keeps its counters
UpsertAgent(agents, id, name) ==
  IF id \in DOMAIN agents THEN agents
  ELSE [a \in DOMAIN agents \cup {id} |->
          IF a = id
          THEN [agent_id |-> id, agent_name |-> name, total_messages |-> 0,
                posts_count |-> 0, comments_count |-> 0,
                avg_pure_score |-> 0, avg_human_score |-> 0,
                first_seen |-> NowStamp, last_seen |-> NowStamp]
          ELSE agents[a]]

\* the first_seen / last_seen columns an upsertAgent call sends: a sent
\* column is written on insert and on conflict, an unsent one is left alone
SetSeen(agents, id, firstSeen, lastSeen) ==
  [agents EXCEPT ![id] =
     [@ EXCEPT !.first_seen = IF firstSeen = Null THEN @ ELSE firstSeen[1],
               !.last_seen  = IF lastSeen = Null THEN @ ELSE lastSeen[1]]]

\* SELECT agent_id FROM agents WHERE agent_name = name LIMIT 1; 0 is NULL
TargetAgentId(agents, name) ==
  IF \E a \in DOMAIN agents : agents[a].agent_name = name
  THEN CHOOSE a \in DOMAIN agents : agents[a].agent_name = name
  ELSE 0

\* UNIQUE(source_agent_id, target_agent_id, interaction_type)
EdgeKey(e) == <<e.source_agent_id, e.target_agent_id, e.interaction_type>>

\* trigger function update_agent_interaction for a new conversations row
\* whose reply_to_agent is not null
UpdateAgentInteraction(edges, agents, row) ==
  LET key == <<row.agent_id, TargetAgentId(agents, row.reply_to_agent), "reply">>
  IN  IF \E e \in edges : EdgeKey(e) = key
      THEN {IF EdgeKey(e) = key
            THEN [e EXCEPT !.strength = @ + 1, !.last_interaction = row.created_at]
            ELSE e : e \in edges}
      ELSE edges \cup {[source_agent_id |-> key[1], target_agent_id |-> key[2],
                         interaction_type |-> "reply",
                         conversation_id |-> row.conversation_id,
                         strength |-> 1, last_interaction |-> row.created_at]}

\* storeConversation(row) in the database: a row with this conversation_id is
\* updated in place and no insert trigger fires; a new row is inserted and
\* trigger_update_agent_interaction fires when it has a reply_to_agent; the
\* insert fails when the trigger finds no agent of that name
\* (target_agent_id is NOT NULL)
StoreConversationResult(rows, edges, agents, row) ==
  IF \E r \in rows : r.conversation_id = row.conversation_id
  THEN [rows |-> StoreConversation(rows, row), edges |-> edges, error |-> FALSE]
  ELSE IF row.reply_to_agent = NoAgent
  THEN [rows |-> StoreConversation(rows, row), edges |-> edges, error |-> FALSE]
  ELSE IF TargetAgentId(agents, row.reply_to_agent) = 0
  THEN [rows |-> rows, edges |-> edges, error |-> TRUE]
  ELSE [rows |-> StoreConversation(rows, row),
        edges |-> UpdateAgentInteraction(edges, agents, row), error |-> FALSE]

\* an upsert that also sends strength: 1
TrackInteractionReset(edges, source, target, type, conversationId) ==
  {e \in edges : EdgeKey(e) # <<source, target, type>>} \cup
    {[source_agent_id |-> source, target_agent_id |-> target,
      interaction_type |-> type, conversation_id |-> conversationId,
      strength |-> 1, last_interaction |-> NowStamp]}

\* trackInteraction: upsert on (source, target, type) of the columns sent;
\* strength is not sent, so a new row takes DEFAULT 1 and an existing row
\* keeps its strength
TrackInteraction(edges, source, target, type, conversationId) ==
  IF \E e \in edges : EdgeKey(e) = <<source, target, type>>
  THEN {IF EdgeKey(e) = <<source, target, type>>
        THEN [e EXCEPT !.conversation_id = conversationId,
                       !.last_interaction = NowStamp]
        ELSE e : e \in edges}
  ELSE edges \cup {[source_agent_id |-> source, target_agent_id |-> target,
                     interaction_type |-> type, conversation_id |-> conversationId,
                     strength |-> 1, last_interaction |-> NowStamp]}

RECURSIVE SumRows(_, _)
\* conversations.reduce((sum, c) => sum + (c[field] || 0), 0)
SumRows(rows, field) ==
  IF rows = {} THEN 0
  ELSE LET r == CHOOSE x \in rows : TRUE
       IN  r[field] + SumRows(rows \ {r}, field)

\* RealtimeAnalyticsService.updateAgentStatistics(agentId)
UpdateAgentStatistics(rows, agents, id) ==
  LET mine == {r \in rows : r.agent_id = id}
      n    == Cardinality(mine)
  IN  IF n = 0 \/ id \notin DOMAIN agents THEN agents
      ELSE [agents EXCEPT ![id] =
              [@ EXCEPT !.total_messages = n,
                        !.posts_count = Cardinality({r \in mine : r.type = "post"}),
                        !.comments_count = Cardinality({r \in mine : r.type = "comment"}),
                        !.avg_pure_score = RoundHundredth(SumRows(mine, "pure_agent_score"), n),
                        !.avg_human_score = RoundHundredth(SumRows(mine, "human_control_score"), n),
                        !.first_seen = CHOOSE t \in {r.created_at : r \in mine} :
                                         \A r \in mine : t <= r.created_at,
                        !.last_seen = CHOOSE t \in {r.created_at : r \in mine} :
                                        \A r \in mine : t >= r.created_at]]

\* the messages a load can hold: any type, agent and score, ids and
\* createdAt in load order
LoadedMessage(i, t, a, s) ==
  [type |-> t, id |-> i, agentId |-> a, agentName |-> AgentName(a),
   pureAgentScore |-> s, humanControlScore |-> 100 - s, createdAt |-> i,
   replyToAgent |-> NoAgent, postId |-> IF t = "comment" THEN Val(1) ELSE Null]

InitFold ==
  /\ conversations = <<>>
  /\ profiles = <<>>
  /\ foldPc = "loaded"
  /\ dbConversations = {}
  /\ agentsTable = <<>>
  /\ dbCursor = 0
  /\ content = {}
  /\ tsResult = NoResult
  /\ jsResult = NoResult
  /\ CollectorParked
  /\ AnalyticsParked
  /\ DatabaseParked

\* a reload brings one more message into AnalyticsService.conversations and
\* clears the cache, so the next request recomputes the agent list
LoadMessage ==
  /\ Len(conversations) < MaxMessages
  /\ \E t \in MessageTypes, a \in AgentIds, s \in FoldScores :
       conversations' =
         Append(conversations, LoadedMessage(Len(conversations) + 1, t, a, s))
  /\ profiles' = <<>>
  /\ foldPc' = "loaded"
  /\ UNCHANGED <<dbConversations, agentsTable, dbCursor>>
  /\ UNCHANGED classifierVars
  /\ UNCHANGED collectorVars
  /\ UNCHANGED analyticsVars
  /\ UNCHANGED databaseVars

\* a request for the agent list: getTopAgents(10) on a cache miss
QueryTopAgents ==
  /\ foldPc = "loaded"
  /\ profiles' = GetTopAgents(conversations, TopAgentsLimit)
  /\ foldPc' = "queried"
  /\ UNCHANGED <<conversations, dbConversations, agentsTable, dbCursor>>
  /\ UNCHANGED classifierVars
  /\ UNCHANGED collectorVars
  /\ UNCHANGED analyticsVars
  /\ UNCHANGED databaseVars

\* storeConversationToDatabase(conv) for the next loaded message: upsertAgent,
\* storeConversation, trackInteraction when the message is a reply to an
\* agent the agents table has, then updateAgentStatistics(conv.agentId)
StoreConversationToDatabase ==
  /\ dbCursor < Len(conversations)
  /\ LET conv   == conversations[dbCursor + 1]
         agents == SetSeen(UpsertAgent(agentsTable, conv.agentId, conv.agentName),
                           conv.agentId, Null, Val(conv.createdAt))
         res    == StoreConversationResult(dbConversations, interactions, agents,
                                           ConversationRow(conv))
         target == TargetAgentId(agents, conv.replyToAgent)
     IN  /\ dbConversations' = res.rows
         /\ interactions' =
               IF conv.replyToAgent # NoAgent /\ target # 0
               THEN TrackInteraction(res.edges, conv.agentId, target, "reply", conv.id)
               ELSE res.edges
         /\ storedMsgs' = IF res.error THEN storedMsgs ELSE storedMsgs \cup {conv}
         /\ agentsTable' = UpdateAgentStatistics(res.rows, agents, conv.agentId)
  /\ dbCursor' = dbCursor + 1
  /\ UNCHANGED <<conversations, profiles, foldPc>>
  /\ UNCHANGED classifierVars
  /\ UNCHANGED collectorVars
  /\ UNCHANGED analyticsVars
  /\ UNCHANGED <<findings, detectRun, growthTable, today>>
  /\ UNCHANGED <<metrics, conversationThreads, converted, passed>>

NextFold == LoadMessage \/ QueryTopAgents \/ StoreConversationToDatabase

SpecFold == InitFold /\ [][NextFold]_vars

----------------------------------------------------------------------------
(* Claims about the aggregation *)

Abs(x) == IF x < 0 THEN -x ELSE x

\* the messages of an agent that were folded into its profile
FoldedOf(name) == MessagesOf(conversations, name)

\* the rows of an agent that were folded into its agents row
RowsOf(id) == {r \in dbConversations : r.agent_id = id}

ProfilesServed == {profiles[i] : i \in DOMAIN profiles}

AgentRows == {agentsTable[a] : a \in DOMAIN agentsTable}

\* |avg - sum/k| < 1e-6 for an average held as avgScaled / scale
WithinMillionth(avgScaled, scale, sum, k) ==
  1000000 * Abs(avgScaled * k - scale * sum) < scale * k

\* |avg - sum/k| <= 1 / (2 * scale) for an average held as avgScaled / scale
WithinHalfUnit(avgScaled, scale, sum, k) ==
  2 * Abs(avgScaled * k - scale * sum) <= k

C8_AvgPairSumsTo100 ==
  \A p \in ProfilesServed : p.avgPureScore + p.avgHumanScore = 1000

\* C9: totalMessages = posts + comments in every profile produced by
\* getTopAgents and in every agents row written by updateAgentStatistics.
C9_TotalIsPostsPlusComments ==
  /\ \A p \in ProfilesServed : p.totalMessages = p.posts + p.comments
  /\ \A r \in AgentRows : r.total_messages = r.posts_count + r.comments_count

\* C9 witness: a profile and an agents row that count posts and comments.
C9_Witness ==
  /\ \E p \in ProfilesServed : p.posts >= 1 /\ p.comments >= 1 /\ p.totalMessages >= 3
  /\ \E r \in AgentRows : r.posts_count >= 1 /\ r.comments_count >= 1

----------------------------------------------------------------------------
(* The collector: ForumDatasetCollector (collector.ts) driven by the        *)
(* collector endpoints and autoStartServices of server-optimized.ts.        *)
(* Each await of collectForumData is a point where other callbacks run.     *)

MaxRuns == 2

\* the post and the comment the forum can come to serve; comment 1 replies to
\* post 1 and has the same numeric id
ForumPosts ==
  { [type |-> "post", id |-> 1, agentId |-> 1, agentName |-> "A",
     body |-> {"##", "API", "GitHub"}, createdAt |-> 1, postId |-> 0] }

ForumComments ==
  { [type |-> "comment", id |-> 1, agentId |-> 2, agentName |-> "B",
     body |-> {"hello"}, createdAt |-> 2, postId |-> 1] }

RECURSIVE NewestFirst(_)
\* the API's sort: 'new' order
NewestFirst(S) ==
  IF S = {} THEN <<>>
  ELSE LET m == CHOOSE x \in S : \A y \in S : y.createdAt <= x.createdAt
       IN  <<m>> \o NewestFirst(S \ {m})

\* fetchAllPosts: the posts served, newest first, or [] when the request fails
FetchAllPosts(ok) ==
  IF ok THEN NewestFirst({m \in upstream : m.type = "post"}) ELSE <<>>

\* fetchPostComments(postId): the comments served, or [] when the request fails
FetchPostComments(postId, ok) ==
  IF ok THEN NewestFirst({m \in upstream : m.type = "comment" /\ m.postId = postId})
  ELSE <<>>

\* the key `${entry.type}-${entry.id}`
Key(e) == <<e.type, e.id>>

KeysOf(lines) == {Key(lines[i]) : i \in DOMAIN lines}

\* JSON.parse(line) returns: the line is not torn or hand-edited
Parses(line) == line.type \in MessageTypes

\* the lines a per-line try / catch keeps
ParsedLines(lines) == SelectSeq(lines, Parses)

\* convertPostToEntry / convertCommentToEntry: the fields of the log line
ConvertToEntry(m) ==
  [type |-> m.type, id |-> m.id, agentId |-> m.agentId, agentName |-> m.agentName,
   pureAgentScore |-> AnalyzeAgentBehaviorTs(m.body).pureAgentScore,
   humanControlScore |-> AnalyzeAgentBehaviorTs(m.body).humanControlScore,
   createdAt |-> m.createdAt, postId |-> m.postId]

\* a forgotten knownEntries.add
AdmitKeyForget(known, key) == known

\* this.knownEntries.add(key)
AdmitKey(known, key) == known \cup {key}

\* if (!this.knownEntries.has(key)) { allEntries.push(entry); knownEntries.add(key) }
AdmitEntry(r, e) ==
  IF Key(e) \in r.knownEntries
  THEN [r EXCEPT !.offered = @ \cup {Key(e)}]
  ELSE [r EXCEPT !.allEntries = Append(@, e),
                 !.knownEntries = AdmitKey(@, Key(e)),
                 !.offered = @ \cup {Key(e)}]

RECURSIVE AdmitAll(_, _)
\* for (const comment of comments) { ... }
AdmitAll(r, ms) ==
  IF ms = <<>> THEN r ELSE AdmitAll(AdmitEntry(r, ConvertToEntry(ms[1])), Tail(ms))

RECURSIVE InsertByCreatedAt(_, _)
InsertByCreatedAt(e, sorted) ==
  IF sorted = <<>> THEN <<e>>
  ELSE IF sorted[1].createdAt <= e.createdAt
       THEN <<sorted[1]>> \o InsertByCreatedAt(e, Tail(sorted))
       ELSE <<e>> \o sorted

RECURSIVE SortByCreatedAt(_)
\* allEntries.sort((a, b) => time(a.createdAt) - time(b.createdAt)), stable
SortByCreatedAt(es) ==
  IF es = <<>> THEN <<>>
  ELSE InsertByCreatedAt(es[Len(es)], SortByCreatedAt(SubSeq(es, 1, Len(es) - 1)))

\* existsSync(this.DATASET_FILE): appendFile creates the file
DatasetFileExists == log # <<>>

\* new ForumDatasetCollector(): the field initialisers, and loadExistingData
\* started (it runs up to its readFile) but not awaited
NewCollector ==
  [pc |-> "idle", knownEntries |-> {}, isCollecting |-> FALSE,
   loadPc |-> IF DatasetFileExists THEN "reading" ELSE "done", loadSnap |-> {},
   posts |-> <<>>, allEntries |-> <<>>, caller |-> "none", added |-> -1,
   offered |-> {}, seen |-> {}]

\* collectForumData past the isCollecting guard, up to await fetchAllPosts.
\* offered / seen record the keys this run / earlier runs met in upstream.
BeginRun(r, who) ==
  [r EXCEPT !.isCollecting = TRUE, !.pc = "posts", !.caller = who,
            !.posts = <<>>, !.allEntries = <<>>, !.added = -1,
            !.seen = @ \cup r.offered, !.offered = {}]

\* a return that leaves the flag set
FinishRunKeepFlag(r, n) ==
  [r EXCEPT !.pc = "idle", !.added = n, !.posts = <<>>,
            !.allEntries = <<>>, !.caller = "none"]

\* return { added: n, ... } with finally { this.isCollecting = false }
FinishRun(r, n) ==
  [r EXCEPT !.isCollecting = FALSE, !.pc = "idle", !.added = n, !.posts = <<>>,
            !.allEntries = <<>>, !.caller = "none"]

\* what the caller does when its await collector.collectForumData() returns:
\* /api/collector/start sets the interval, autoStartServices goes on to
\* await forceReload, the others touch no collector state
AfterRun(who) ==
  /\ collectionInterval' = IF who = "start" THEN TRUE ELSE collectionInterval
  /\ timers' = IF who = "start" THEN timers + 1 ELSE timers
  /\ bootPc' = IF who = "boot" THEN "reloading" ELSE bootPc

Collectors == 1..nCollectors

\* the state when the server starts listening and autoStartServices has run
\* up to its first await, on a fresh disk
Init ==
  /\ upstream = {}
  /\ log = <<>>
  /\ coll = << BeginRun([NewCollector EXCEPT !.loadPc = "done"], "boot") >>
  /\ collector = 1
  /\ collectionInterval = FALSE
  /\ timers = 0
  /\ bootPc = "collecting"
  /\ nCollectors = 1
  /\ runs = 1
  /\ FoldParked
  /\ AnalyticsParked
  /\ DatabaseParked
  /\ content = {}
  /\ tsResult = NoResult
  /\ jsResult = NoResult

\* the forum gets a new post, or a comment on a post it serves
Publish ==
  /\ \E m \in (ForumPosts \cup ForumComments) \ upstream :
       /\ m.type = "comment" => \E q \in upstream : q.type = "post" /\ q.id = m.postId
       /\ upstream' = upstream \cup {m}
  /\ UNCHANGED <<log, collector, collectionInterval, timers, bootPc, nCollectors,
                 runs, coll>>
  /\ UNCHANGED <<classifierVars, foldVars, analyticsVars, databaseVars>>

\* autoStartServices after await analyticsService.forceReload(): setInterval
BootReloaded ==
  /\ bootPc = "reloading"
  /\ bootPc' = "done"
  /\ collectionInterval' = TRUE
  /\ timers' = timers + 1
  /\ UNCHANGED <<upstream, log, collector, nCollectors, runs, coll>>
  /\ UNCHANGED <<classifierVars, foldVars, analyticsVars, databaseVars>>

\* POST /api/collector/start, up to await collector.collectForumData()
Start ==
  /\ ~(collector # 0 /\ collectionInterval)
  /\ runs < MaxRuns
  /\ coll' = Append(coll, BeginRun(NewCollector, "start"))
  /\ nCollectors' = nCollectors + 1
  /\ collector' = nCollectors + 1
  /\ runs' = runs + 1
  /\ UNCHANGED <<upstream, log, collectionInterval, timers, bootPc>>
  /\ UNCHANGED <<classifierVars, foldVars, analyticsVars, databaseVars>>

\* POST /api/collector/stop
Stop ==
  /\ collectionInterval \/ collector # 0
  /\ collectionInterval' = FALSE
  /\ timers' = IF collectionInterval THEN timers - 1 ELSE timers
  /\ collector' = 0
  /\ UNCHANGED <<upstream, log, bootPc, nCollectors, runs, coll>>
  /\ UNCHANGED <<classifierVars, foldVars, analyticsVars, databaseVars>>

\* a collection interval fires: if (collector) await collector.collectForumData();
\* a call made while the collector is collecting returns added 0 at once
Tick ==
  /\ timers > 0
  /\ collector # 0
  /\ runs < MaxRuns
  /\ runs' = runs + 1
  /\ coll' = IF coll[collector].isCollecting THEN coll
             ELSE [coll EXCEPT ![collector] = BeginRun(@, "tick")]
  /\ UNCHANGED <<upstream, log, collector, collectionInterval, timers, bootPc,
                 nCollectors>>
  /\ UNCHANGED <<classifierVars, foldVars, analyticsVars, databaseVars>>

\* POST /api/collector/collect-once, up to await tempCollector.collectForumData()
CollectOnce ==
  /\ runs < MaxRuns
  /\ coll' = Append(coll, BeginRun(NewCollector, "once"))
  /\ nCollectors' = nCollectors + 1
  /\ runs' = runs + 1
  /\ UNCHANGED <<upstream, log, collector, collectionInterval, timers, bootPc>>
  /\ UNCHANGED <<classifierVars, foldVars, analyticsVars, databaseVars>>

\* loadExistingData: fs.readFile completes with the lines then on disk
LoadRead(c) ==
  /\ coll[c].loadPc = "reading"
  /\ coll' = [coll EXCEPT ![c].loadPc = "apply", ![c].loadSnap = KeysOf(ParsedLines(log))]
  /\ UNCHANGED <<upstream, log, collector, collectionInterval, timers, bootPc,
                 nCollectors, runs>>
  /\ UNCHANGED <<classifierVars, foldVars, analyticsVars, databaseVars>>

\* loadExistingData after its await: every parsed line's key is added
LoadApply(c) ==
  /\ coll[c].loadPc = "apply"
  /\ coll' = [coll EXCEPT ![c].loadPc = "done",
                          ![c].knownEntries = @ \cup coll[c].loadSnap]
  /\ UNCHANGED <<upstream, log, collector, collectionInterval, timers, bootPc,
                 nCollectors, runs>>
  /\ UNCHANGED <<classifierVars, foldVars, analyticsVars, databaseVars>>

\* await fetchAllPosts() returns: no posts ends the run, otherwise the first
\* post is admitted and its comments are requested
PostsFetched(c) ==
  /\ coll[c].pc = "posts"
  /\ \E ok \in BOOLEAN :
       LET posts == FetchAllPosts(ok)
       IN  IF posts = <<>>
           THEN /\ coll' = [coll EXCEPT ![c] = FinishRun(@, 0)]
                /\ AfterRun(coll[c].caller)
           ELSE /\ coll' = [coll EXCEPT ![c] =
                     [AdmitEntry(@, ConvertToEntry(posts[1])) EXCEPT
                        !.posts = posts, !.pc = "comments"]]
                /\ UNCHANGED <<collectionInterval, timers, bootPc>>
  /\ UNCHANGED <<upstream, log, collector, nCollectors, runs>>
  /\ UNCHANGED <<classifierVars, foldVars, analyticsVars, databaseVars>>

\* await fetchPostComments(post.id) returns: its comments are admitted, then
\* await sleep(100)
CommentsFetched(c) ==
  /\ coll[c].pc = "comments"
  /\ \E ok \in BOOLEAN :
       coll' = [coll EXCEPT ![c] =
          [AdmitAll(@, FetchPostComments(coll[c].posts[1].id, ok)) EXCEPT
             !.posts = Tail(coll[c].posts), !.pc = "sleep"]]
  /\ UNCHANGED <<upstream, log, collector, collectionInterval, timers, bootPc,
                 nCollectors, runs>>
  /\ UNCHANGED <<classifierVars, foldVars, analyticsVars, databaseVars>>

\* await sleep(100) returns: the next post is admitted, or the loop ends,
\* allEntries is sorted, and appendFile is called if there is anything new
SleepDone(c) ==
  /\ coll[c].pc = "sleep"
  /\ IF coll[c].posts # <<>>
     THEN /\ coll' = [coll EXCEPT ![c] =
               [AdmitEntry(@, ConvertToEntry(coll[c].posts[1])) EXCEPT
                  !.pc = "comments"]]
          /\ UNCHANGED <<collectionInterval, timers, bootPc>>
     ELSE IF coll[c].allEntries = <<>>
     THEN /\ coll' = [coll EXCEPT ![c] = FinishRun(@, 0)]
          /\ AfterRun(coll[c].caller)
     ELSE /\ coll' = [coll EXCEPT ![c].allEntries = SortByCreatedAt(@),
                                  ![c].pc = "append"]
          /\ UNCHANGED <<collectionInterval, timers, bootPc>>
  /\ UNCHANGED <<upstream, log, collector, nCollectors, runs>>
  /\ UNCHANGED <<classifierVars, foldVars, analyticsVars, databaseVars>>

\* await fs.appendFile returns: the new lines are on disk and the entries go
\* to Supabase, or it throws and the catch block returns added 0
AppendDone(c) ==
  /\ coll[c].pc = "append"
  /\ \E ok \in BOOLEAN :
       IF ok
       THEN /\ log' = log \o coll[c].allEntries
            /\ coll' = [coll EXCEPT ![c].pc = "store"]
            /\ UNCHANGED <<collectionInterval, timers, bootPc>>
       ELSE /\ log' = log
            /\ coll' = [coll EXCEPT ![c] = FinishRun(@, 0)]
            /\ AfterRun(coll[c].caller)
  /\ UNCHANGED <<upstream, collector, nCollectors, runs>>
  /\ UNCHANGED <<classifierVars, foldVars, analyticsVars, databaseVars>>

\* the Supabase loop is over: return { added: allEntries.length, ... }
StoreDone(c) ==
  /\ coll[c].pc = "store"
  /\ coll' = [coll EXCEPT ![c] = FinishRun(@, Len(coll[c].allEntries))]
  /\ AfterRun(coll[c].caller)
  /\ UNCHANGED <<upstream, log, collector, nCollectors, runs>>
  /\ UNCHANGED <<classifierVars, foldVars, analyticsVars, databaseVars>>

Next ==
  \/ Publish
  \/ BootReloaded
  \/ Start
  \/ Stop
  \/ Tick
  \/ CollectOnce
  \/ \E c \in Collectors : LoadRead(c)
  \/ \E c \in Collectors : LoadApply(c)
  \/ \E c \in Collectors : PostsFetched(c)
  \/ \E c \in Collectors : CommentsFetched(c)
  \/ \E c \in Collectors : SleepDone(c)
  \/ \E c \in Collectors : AppendDone(c)
  \/ \E c \in Collectors : StoreDone(c)

Spec == Init /\ [][Next]_vars

----------------------------------------------------------------------------
(* Claims about collection runs.                                            *)

NoDuplicateKeys(lines) ==
  \A i, j \in DOMAIN lines : Key(lines[i]) = Key(lines[j]) => i = j

\* C1: every (type,id) key occurs at most once in the message log, whatever
\* the interleaving of interval ticks, /start and /collect-once runs.
C1_LogKeysUnique == NoDuplicateKeys(log)

\* C2: at no point are two collectForumData runs past the isCollecting guard
\* at once, across all entry points.
C2_RunsSerialized ==
  \A c, d \in Collectors : coll[c].isCollecting /\ coll[d].isCollecting => c = d

\* the run of collector c has so far been offered only keys that earlier runs
\* of the same collector were offered
IsReplay(r) == r.offered # {} /\ r.offered \subseteq r.seen

TotalsFromLog(lines) ==
  LET served == GetTopAgents(lines, TopAgentsLimit)
  IN  {<<served[i].agentName, served[i].totalMessages>> : i \in DOMAIN served}

\* C3: a run of collectForumData that replays, on the same collector, what
\* earlier runs of it were offered admits no key, appends nothing to the log
\* and returns added = 0, so every agent's totalMessages computed from the
\* log is what it was.
\* (Every step of a run moves its pc; loadExistingData's steps do not.)
C3_ReplayIdempotent ==
  [][\A c \in Collectors :
       (coll[c].isCollecting /\ coll'[c].pc # coll[c].pc /\ IsReplay(coll'[c])) =>
         /\ coll'[c].allEntries = <<>>
         /\ coll'[c].knownEntries = coll[c].knownEntries
         /\ coll'[c].pc \notin {"append", "store"}
         /\ log' = log
         /\ TotalsFromLog(log') = TotalsFromLog(log)
         /\ (coll'[c].pc = "idle" => coll'[c].added = 0)]_vars

\* a second run on the boot collector has replayed the first and returned
\* added = 0 with the first run's lines in the log
C3_Witness ==
  /\ coll[1].pc = "idle"
  /\ coll[1].added = 0
  /\ IsReplay(coll[1])
  /\ coll[1].offered = {<<"post", 1>>, <<"comment", 1>>}
  /\ Len(log) = 2
  /\ runs = 2

\* C4: at the end of every run each key in knownEntries has a line in the
\* log, so no message marked known is lost when appendFile throws.
C4_KnownKeysAreLogged ==
  \A c \in Collectors :
    (coll[c].pc = "idle" /\ coll[c].added >= 0) =>
      coll[c].knownEntries \subseteq KeysOf(log)

----------------------------------------------------------------------------
(* AnalyticsService: loadData, the 30 s cache, getOverview and              *)
(* getBehaviorDistribution (analytics-service.ts), over the log file the    *)
(* collector appends to.                                                    *)

MaxLines == 2

MaxTicks == 4

CACHE_TTL == 30000

DATA_RELOAD_INTERVAL == 10000

\* scores on both sides of the classification thresholds
BehaviorScores == {29, 70, 71}

\* the line the n-th append writes: posts and comments in turn
DatasetLine(n, s) == LoadedMessage(n, IF n % 2 = 1 THEN "post" ELSE "comment", 1, s)

\* a line JSON.parse rejects; its fields are never read
UnparseableLine(n) == LoadedMessage(n, "unparseable", 1, 0)

\* what a loadData that has ended leaves in lastLoad
LoadEnded(kind, read) == [kind |-> kind, read |-> read, held |-> conversations]

\* the object getOverview builds (lastUpdate, a time stamp, left out)
Overview(convs) ==
  [totalEntries |-> Len(convs),
   totalPosts |-> Cardinality({i \in DOMAIN convs : IsPost(convs[i])}),
   totalComments |-> Cardinality({i \in DOMAIN convs : IsComment(convs[i])}),
   uniqueAgents |-> Cardinality({convs[i].agentName : i \in DOMAIN convs})]

IsPureAgent(c) == c.pureAgentScore > 70

IsHumanControl(c) == ~IsPureAgent(c) /\ c.humanControlScore > 70

IsMixed(c) == ~IsPureAgent(c) /\ ~IsHumanControl(c)

\* the object getBehaviorDistribution builds
BehaviorDistribution(convs) ==
  [pureAgent |-> Cardinality({i \in DOMAIN convs : IsPureAgent(convs[i])}),
   humanControl |-> Cardinality({i \in DOMAIN convs : IsHumanControl(convs[i])}),
   mixed |-> Cardinality({i \in DOMAIN convs : IsMixed(convs[i])})]

\* getFromCache finds an entry that has not expired
CacheHit(key) ==
  /\ cache[key] # NoEntry
  /\ ~(now - cache[key].timestamp > cache[key].ttl)

\* setCache(key, data)
SetCache(c, key, data) ==
  [c EXCEPT ![key] = [data |-> data, timestamp |-> now, ttl |-> CACHE_TTL]]

\* a reload that leaves the cache as it is
KeepCache(entries) == entries

\* this.cache.clear()
ClearCache(entries) == [k \in DOMAIN entries |-> NoEntry]

\* what getOverview() returns in the current state
ServedOverview ==
  IF CacheHit("overview") THEN cache["overview"].data ELSE Overview(conversations)

\* what getBehaviorDistribution() returns in the current state
ServedBehavior ==
  IF CacheHit("behavior") THEN cache["behavior"].data
  ELSE BehaviorDistribution(conversations)

\* loadData up to its await: a missing file empties conversations, an
\* unmodified file is left alone, otherwise fs.readFile is started
BeginLoad(since) ==
  IF ~DatasetFileExists
  THEN /\ conversations' = <<>>
       /\ loads' = loads
       /\ lastLoad' = LoadEnded("missing", <<>>)
  ELSE IF fileMtime <= since
  THEN UNCHANGED <<conversations, loads, lastLoad>>
  ELSE /\ loads' = loads \cup {fileMtime}
       /\ UNCHANGED <<conversations, lastLoad>>

\* new AnalyticsService() on a disk without a log: loadData found no file
InitAnalytics ==
  /\ AnalyticsParked
  /\ DatabaseParked
  /\ FoldParked
  /\ CollectorParked
  /\ content = {}
  /\ tsResult = NoResult
  /\ jsResult = NoResult

\* a collector appends a line to the log, or the file comes to hold a line
\* that is not JSON
DatasetAppend ==
  /\ Len(log) < MaxLines
  /\ \/ \E s \in BehaviorScores : log' = Append(log, DatasetLine(Len(log) + 1, s))
     \/ log' = Append(log, UnparseableLine(Len(log) + 1))
  /\ fileMtime' = fileMtime + 1
  /\ UNCHANGED <<lastLoadTime, cache, now, loads, lastLoad>>
  /\ UNCHANGED foldVars
  /\ UNCHANGED <<upstream, collector, collectionInterval, timers, bootPc,
                 nCollectors, runs, coll>>
  /\ UNCHANGED <<classifierVars, databaseVars>>

\* 10 s pass and the reload interval calls loadData
ReloadTimer ==
  /\ now < MaxTicks * DATA_RELOAD_INTERVAL
  /\ now' = now + DATA_RELOAD_INTERVAL
  /\ BeginLoad(lastLoadTime)
  /\ UNCHANGED <<fileMtime, lastLoadTime, cache>>
  /\ UNCHANGED <<profiles, foldPc, dbConversations, agentsTable, dbCursor>>
  /\ UNCHANGED collectorVars
  /\ UNCHANGED <<classifierVars, databaseVars>>

\* forceReload up to the await inside loadData
ForceReload ==
  /\ lastLoadTime' = 0
  /\ BeginLoad(0)
  /\ UNCHANGED <<fileMtime, cache, now>>
  /\ UNCHANGED <<profiles, foldPc, dbConversations, agentsTable, dbCursor>>
  /\ UNCHANGED collectorVars
  /\ UNCHANGED <<classifierVars, databaseVars>>

\* what fs.readFile can return to a load whose statSync saw fileModTime: the
\* file as it was at some moment between the stat and the return (the log
\* only grows, and its mtime counts its appends)
ReadFileResults(fileModTime) == {SubSeq(log, 1, n) : n \in fileModTime..Len(log)}

\* fs.readFile returns and every line parses: the lines replace conversations
\* and the cache is cleared; or readFile rejects, or lines.map(JSON.parse)
\* throws at a line, and the catch block empties conversations
LoadFinish ==
  /\ \E fileModTime \in loads : \E ok \in BOOLEAN :
     \E data \in ReadFileResults(fileModTime) :
       /\ loads' = loads \ {fileModTime}
       /\ IF ok /\ \A i \in DOMAIN data : Parses(data[i])
          THEN /\ conversations' = data
               /\ lastLoadTime' = fileModTime
               /\ cache' = ClearCache(cache)
               /\ lastLoad' = LoadEnded("installed", data)
          ELSE /\ conversations' = <<>>
               /\ lastLoad' = IF ok THEN LoadEnded("parseError", data)
                                    ELSE LoadEnded("readError", <<>>)
               /\ UNCHANGED <<lastLoadTime, cache>>
  /\ UNCHANGED <<fileMtime, now>>
  /\ UNCHANGED <<profiles, foldPc, dbConversations, agentsTable, dbCursor>>
  /\ UNCHANGED collectorVars
  /\ UNCHANGED <<classifierVars, databaseVars>>

\* getOverview(): a miss (or an expired entry) computes and caches
GetOverview ==
  /\ ~CacheHit("overview")
  /\ cache' = SetCache(cache, "overview", Overview(conversations))
  /\ UNCHANGED <<fileMtime, lastLoadTime, now, loads, lastLoad>>
  /\ UNCHANGED foldVars
  /\ UNCHANGED collectorVars
  /\ UNCHANGED <<classifierVars, databaseVars>>

\* getBehaviorDistribution(): a miss (or an expired entry) computes and caches
GetBehaviorDistribution ==
  /\ ~CacheHit("behavior")
  /\ cache' = SetCache(cache, "behavior", BehaviorDistribution(conversations))
  /\ UNCHANGED <<fileMtime, lastLoadTime, now, loads, lastLoad>>
  /\ UNCHANGED foldVars
  /\ UNCHANGED collectorVars
  /\ UNCHANGED <<classifierVars, databaseVars>>

NextAnalytics ==
  \/ DatasetAppend
  \/ ReloadTimer
  \/ ForceReload
  \/ LoadFinish
  \/ GetOverview
  \/ GetBehaviorDistribution

SpecAnalytics == InitAnalytics /\ [][NextAnalytics]_vars

\* C10: the behaviour distribution served by getBehaviorDistribution sums to
\* the totalEntries served by getOverview, also when either comes from the
\* cache and after reloads or failed loads.
C10_DistributionSumsToTotal ==
  ServedBehavior.pureAgent + ServedBehavior.humanControl + ServedBehavior.mixed
    = ServedOverview.totalEntries

----------------------------------------------------------------------------
(* The conversation store: storeConversation with the insert trigger on     *)
(* conversations, trackInteraction and upsertAgent, as the collector        *)
(* (collector.ts) and the real-time service call them.                      *)

\* a message as the collector or the analytics service hands it to the store
StoreMessage(t, i, a, replyTo, at) ==
  [type |-> t, id |-> i, agentId |-> a, agentName |-> AgentName(a),
   pureAgentScore |-> 50, humanControlScore |-> 50, createdAt |-> at,
   replyToAgent |-> replyTo, postId |-> IF t = "comment" THEN Val(1) ELSE Null]

\* a post, a comment on it that has the post's numeric id, and two more
\* comments, in createdAt order
StoreFeed ==
  << StoreMessage("post", 1, 1, NoAgent, 1),
     StoreMessage("comment", 1, 2, "A", 2),
     StoreMessage("comment", 2, 2, "A", 3),
     StoreMessage("comment", 3, 1, "B", 4) >>

StoreMessages == {StoreFeed[i] : i \in DOMAIN StoreFeed}

\* empty tables; the analytics service holds some of the messages
InitStore ==
  /\ \E held \in SUBSET StoreMessages :
       LET Held(m) == m \in held
       IN  conversations = SelectSeq(StoreFeed, Held)
  /\ profiles = <<>>
  /\ foldPc = "loaded"
  /\ dbConversations = {}
  /\ agentsTable = <<>>
  /\ dbCursor = 0
  /\ DatabaseParked
  /\ CollectorParked
  /\ AnalyticsParked
  /\ content = {}
  /\ tsResult = NoResult
  /\ jsResult = NoResult

\* collectForumData's Supabase loop for one entry: storeConversation, then
\* upsertAgent
CollectorStoresEntry ==
  /\ \E m \in StoreMessages :
       LET res == StoreConversationResult(dbConversations, interactions, agentsTable,
                                          CollectorRow(m))
       IN  /\ dbConversations' = res.rows
           /\ interactions' = res.edges
           /\ storedMsgs' = IF res.error THEN storedMsgs ELSE storedMsgs \cup {m}
           /\ agentsTable' = SetSeen(UpsertAgent(agentsTable, m.agentId, m.agentName),
                                    m.agentId, Val(m.createdAt), Val(m.createdAt))
  /\ UNCHANGED <<conversations, profiles, foldPc, dbCursor>>
  /\ UNCHANGED <<findings, detectRun, growthTable, today>>
  /\ UNCHANGED <<metrics, conversationThreads, converted, passed>>
  /\ UNCHANGED <<classifierVars, collectorVars, analyticsVars>>

NextStore == CollectorStoresEntry \/ StoreConversationToDatabase

SpecStore == InitStore /\ [][NextStore]_vars

EdgeKeys(edges) == {EdgeKey(e) : e \in edges}

StrengthOf(edges, key) ==
  IF key \in EdgeKeys(edges)
  THEN (CHOOSE e \in edges : EdgeKey(e) = key).strength
  ELSE 0

\* C11: for every fixed key (source, target, type) the edge's strength is at
\* least 1 and never decreases, across conversation inserts, upserts and
\* trackInteraction calls.
C11_StrengthNeverDecreases ==
  [][/\ \A e \in interactions' : e.strength >= 1
     /\ \A e \in interactions :
          StrengthOf(interactions', EdgeKey(e)) >= e.strength]_vars

\* trackInteraction has touched an edge that two replies had raised to 2
C11_Witness ==
  \E e \in interactions : e.strength = 2 /\ e.last_interaction = NowStamp

\* the reply messages stored for a (source, target) pair
RepliesStored(source, target) ==
  {m \in storedMsgs : m.agentId = source /\ m.replyToAgent = AgentName(target)}

\* C12: an edge's strength equals the number of distinct reply messages
\* stored for its (source, target) pair: each stored reply raises exactly its
\* own 'reply' edge by 1, and a message without replyToAgent changes no edge.
C12_StrengthCountsReplies ==
  \A source, target \in AgentIds :
    StrengthOf(interactions, <<source, target, "reply">>)
      = Cardinality(RepliesStored(source, target))

\* C13: a post and a comment with the same numeric id are both kept: every
\* stored message has its own row in the conversations table.
C13_PostAndCommentBothKept ==
  \A m \in storedMsgs :
    \E r \in dbConversations : r.conversation_id = m.id /\ r.type = m.type

----------------------------------------------------------------------------
(* Detection: RealtimeAnalyticsService.detectSuspiciousPatterns and its     *)
(* four sub-detectors, over the conversations, agent_growth_tracking and    *)
(* agent_interactions tables.                                               *)

MaxDetections == 2

HOUR_MS == 3600000

WINDOW_MS == 5000

\* a suspicious_patterns row; evidence is the number the detector reports
\* (window start, response count, growth rate, cluster size)
Finding(type, agents, severity, confidence, evidence) ==
  [pattern_type |-> type, agent_ids |-> agents, severity |-> severity,
   confidence_score |-> confidence, evidence |-> evidence]

\* .gte('created_at', new Date(Date.now() - 3600000))
RecentConversations(rows, t) == {r \in rows : r.created_at >= t - HOUR_MS}

\* Math.floor(timestamp / 5000)
WindowKey(r) == r.created_at \div WINDOW_MS

\* [...new Set(agentIds)] of a window
WindowAgents(recent, k) == {r.agent_id : r \in {x \in recent : WindowKey(x) = k}}

\* a window judged by its number of messages
IsCoordinatedByMessages(recent, k) ==
  Cardinality({x \in recent : WindowKey(x) = k}) >= 3

\* uniqueAgents.length >= 3
IsCoordinated(recent, k) == Cardinality(WindowAgents(recent, k)) >= 3

RECURSIVE CoordinatedFindings(_, _)
\* for (const [windowKey, agentIds] of windows.entries()), in insertion
\* (ascending created_at) order
CoordinatedFindings(keys, recent) ==
  IF keys = {} THEN <<>>
  ELSE LET k    == CHOOSE x \in keys : \A y \in keys : x <= y
           rest == CoordinatedFindings(keys \ {k}, recent)
       IN  IF IsCoordinated(recent, k)
           THEN <<Finding("coordinated_posting", WindowAgents(recent, k), "medium",
                          75, k * WINDOW_MS)>> \o rest
           ELSE rest

\* detectCoordinatedPosting: the rows it inserts
DetectCoordinatedPosting(rows, t) ==
  LET recent == RecentConversations(rows, t)
  IN  IF Cardinality(recent) < 3 THEN <<>>
      ELSE CoordinatedFindings({WindowKey(r) : r \in recent}, recent)

\* .lt('response_time', 2).not('response_time', 'is', null) within the last hour
RapidResponses(rows, t) ==
  {r \in RecentConversations(rows, t) :
     r.response_time # Null /\ r.response_time[1] < 2}

RECURSIVE RapidFindings(_, _)
\* for (const [agentId, responseTimes] of agentResponses.entries())
RapidFindings(agents, rapid) ==
  IF agents = {} THEN <<>>
  ELSE LET a    == CHOOSE x \in agents : \A y \in agents : x <= y
           n    == Cardinality({r \in rapid : r.agent_id = a})
           rest == RapidFindings(agents \ {a}, rapid)
       IN  IF n >= 5
           THEN <<Finding("rapid_interaction", {a}, "low", 60, n)>> \o rest
           ELSE rest

\* detectRapidInteractions: the rows it inserts
DetectRapidInteractions(rows, t) ==
  LET rapid == RapidResponses(rows, t)
  IN  IF Cardinality(rapid) < 5 THEN <<>>
      ELSE RapidFindings({r.agent_id : r \in rapid}, rapid)

\* growth_rate is NUMERIC(10,2): the model holds it in hundredths of a percent
RateScale == 100

RECURSIVE GrowthFindings(_)
\* for (const growth of growthData)
GrowthFindings(rows) ==
  IF rows = {} THEN <<>>
  ELSE LET g == CHOOSE x \in rows : TRUE
       IN  <<Finding("inorganic_growth", {g.agent_id}, "high", 85,
                     [growth_rate |-> g.growth_rate[1], date |-> g.date])>>
           \o GrowthFindings(rows \ {g})

\* detectInorganicGrowth: the rows it inserts
DetectInorganicGrowth(growth) ==
  GrowthFindings({g \in growth : /\ g.is_organic = FALSE
                                 /\ g.growth_rate # Null
                                 /\ g.growth_rate[1] >= 500 * RateScale})

\* .gte('strength', 10)
StrongInteractions(edges) == {e \in edges : e.strength >= 10}

\* graph.keys()
GraphNodes(edges) ==
  {e.source_agent_id : e \in edges} \cup {e.target_agent_id : e \in edges}

\* graph.get(node): the undirected neighbours of a node
Neighbors(edges, node) ==
  {e.target_agent_id : e \in {x \in edges : x.source_agent_id = node}}
  \cup {e.source_agent_id : e \in {x \in edges : x.target_agent_id = node}}

RECURSIVE Dfs(_, _)
\* dfs(node, cluster): everything reachable from the nodes already in cluster
Dfs(edges, cluster) ==
  LET next == cluster \cup UNION {Neighbors(edges, n) : n \in cluster}
  IN  IF next = cluster THEN cluster ELSE Dfs(edges, next)

RECURSIVE FindClusters(_, _)
\* findClusters: one cluster per unvisited node of graph.keys()
FindClusters(edges, visited) ==
  LET open == GraphNodes(edges) \ visited
  IN  IF open = {} THEN <<>>
      ELSE LET node    == CHOOSE x \in open : \A y \in open : x <= y
               cluster == Dfs(edges, {node})
           IN  <<cluster>> \o FindClusters(edges, visited \cup cluster)

\* Math.min(95, 60 + (cluster.size * 5))
ClusterConfidence(size) == IF 60 + size * 5 < 95 THEN 60 + size * 5 ELSE 95

\* cluster.size >= 5 ? 'high' : 'medium'
ClusterSeverity(size) == IF size >= 5 THEN "high" ELSE "medium"

RECURSIVE ClusterFindings(_)
\* for (const cluster of clusters) if (cluster.size >= 3)
ClusterFindings(clusters) ==
  IF clusters = <<>> THEN <<>>
  ELSE LET size == Cardinality(Head(clusters))
           rest == ClusterFindings(Tail(clusters))
       IN  IF size >= 3
           THEN <<Finding("network_cluster", Head(clusters), ClusterSeverity(size),
                          ClusterConfidence(size), size)>> \o rest
           ELSE rest

\* detectSuspiciousClusters: the rows it inserts
DetectSuspiciousClusters(edges) ==
  LET strong == StrongInteractions(edges)
  IN  IF Cardinality(strong) < 3 THEN <<>>
      ELSE ClusterFindings(FindClusters(strong, {}))

\* the four sub-detectors in the order detectSuspiciousPatterns awaits them
Detectors == <<"coordinated_posting", "rapid_interaction", "inorganic_growth",
               "network_cluster">>

\* what one sub-detector inserts, given the tables it queries
DetectorFindings(name) ==
  CASE name = "coordinated_posting" -> DetectCoordinatedPosting(dbConversations, now)
    [] name = "rapid_interaction"   -> DetectRapidInteractions(dbConversations, now)
    [] name = "inorganic_growth"    -> DetectInorganicGrowth(growthTable)
    [] name = "network_cluster"     -> DetectSuspiciousClusters(interactions)

RECURSIVE RunDetectors(_, _)
\* the awaits inside the single try block: sub-detectors run in order up to
\* the one that throws; the catch ends the run
RunDetectors(i, thrower) ==
  IF i > Len(Detectors) \/ i = thrower THEN <<>>
  ELSE DetectorFindings(Detectors[i]) \o RunDetectors(i + 1, thrower)

\* detected_at DEFAULT NOW(): the rows of one run carry the run's number
Stamped(rows, n) ==
  [i \in DOMAIN rows |->
     [pattern_type |-> rows[i].pattern_type, agent_ids |-> rows[i].agent_ids,
      severity |-> rows[i].severity, confidence_score |-> rows[i].confidence_score,
      evidence |-> rows[i].evidence, detected_at |-> n]]

\* a conversations row as the detectors read it
DetectRow(id, agent, at, responseTime) ==
  [conversation_id |-> id, agent_id |-> agent, created_at |-> at,
   response_time |-> responseTime]

\* an agent_interactions row between two agents
DetectEdge(source, target, strength) ==
  [source_agent_id |-> source, target_agent_id |-> target,
   interaction_type |-> "reply", conversation_id |-> 0, strength |-> strength,
   last_interaction |-> NowStamp]

\* an agent_growth_tracking row
GrowthRow(agent, date, total, rate, organic) ==
  [agent_id |-> agent, date |-> date, total_messages |-> total,
   growth_rate |-> rate, is_organic |-> organic]

\* Date.now() of the detection runs: the last hour starts at DetectCutoff
DetectCutoff == 10000

DetectNow == DetectCutoff + HOUR_MS

\* posting times around the start of the last hour and around a window edge
PostTimes == <<DetectCutoff - 1, DetectCutoff, DetectCutoff + WINDOW_MS - 1,
               DetectCutoff + WINDOW_MS>>

PostingAgents == 1..3

\* conversations rows: any set of posts of three agents at the posting times
PostingRows ==
  {DetectRow((a - 1) * Len(PostTimes) + i, a, PostTimes[i], Null) :
     a \in PostingAgents, i \in DOMAIN PostTimes}

\* candidate interaction edges over six agents: two triangles' worth of pairs
\* and a bridge between them
EdgePairs == <<<<1, 2>>, <<2, 3>>, <<1, 3>>, <<4, 5>>, <<5, 6>>, <<3, 4>>>>

\* each candidate edge is absent (0), below the threshold or at it
EdgeStrengths == {0, 9, 10}

EdgesOf(strengths) ==
  {DetectEdge(EdgePairs[i][1], EdgePairs[i][2], strengths[i]) :
     i \in {j \in DOMAIN EdgePairs : strengths[j] # 0}}

\* tables on which each of the four sub-detectors has something to report
BusyRows ==
  {DetectRow(i, 1, DetectCutoff + i, Val(1)) : i \in 1..5}
  \cup {DetectRow(6, 2, DetectCutoff + 6, Null), DetectRow(7, 3, DetectCutoff + 7, Null)}

\* CURRENT_DATE of the detection runs
DetectDay == 2

\* snapshot rows of the day before and of the day: inorganic, organic, and
\* one without a growth_rate
SnapshotRows ==
  {GrowthRow(1, DetectDay - 1, 71, Val(610 * RateScale), FALSE),
   GrowthRow(1, DetectDay, 72, Val(1 * RateScale), TRUE),
   GrowthRow(2, DetectDay, 70, Val(600 * RateScale), FALSE),
   GrowthRow(3, DetectDay, 10, Null, TRUE)}

BusyEdges == EdgesOf(<<10, 10, 10, 0, 0, 0>>)

InitDetect ==
  /\ \/ /\ dbConversations \in SUBSET PostingRows
        /\ interactions = {}
        /\ growthTable = {}
     \/ /\ dbConversations = {}
        /\ \E strengths \in [DOMAIN EdgePairs -> EdgeStrengths] :
             interactions = EdgesOf(strengths)
        /\ growthTable = {}
     \/ /\ dbConversations = BusyRows
        /\ interactions = BusyEdges
        /\ growthTable \in SUBSET SnapshotRows
  /\ now = DetectNow
  /\ findings = <<>>
  /\ detectRun = NoRun
  /\ storedMsgs = {}
  /\ passed = <<>>
  /\ converted = {}
  /\ conversationThreads = <<>>
  /\ metrics = NoMetrics
  /\ today = DetectDay
  /\ conversations = <<>>
  /\ profiles = <<>>
  /\ foldPc = "loaded"
  /\ agentsTable = <<>>
  /\ dbCursor = 0
  /\ fileMtime = 0
  /\ lastLoadTime = 0
  /\ cache = [k \in CacheKeys |-> NoEntry]
  /\ loads = {}
  /\ lastLoad = NoLoad
  /\ CollectorParked
  /\ content = {}
  /\ tsResult = NoResult
  /\ jsResult = NoResult

\* detectSuspiciousPatterns: one run; thrower is the position of the
\* sub-detector whose query throws, Len(Detectors) + 1 when none does
DetectSuspiciousPatterns ==
  /\ detectRun.count < MaxDetections
  /\ \E thrower \in 1..(Len(Detectors) + 1) :
       /\ findings' = findings \o Stamped(RunDetectors(1, thrower), detectRun.count + 1)
       /\ detectRun' =
            [count  |-> detectRun.count + 1,
             called |-> {Detectors[i] : i \in {j \in DOMAIN Detectors : j <= thrower}},
             threw  |-> {Detectors[i] : i \in {j \in DOMAIN Detectors : j = thrower}}]
  /\ UNCHANGED <<interactions, storedMsgs, growthTable, today>>
  /\ UNCHANGED <<metrics, conversationThreads, converted, passed>>
  /\ UNCHANGED <<classifierVars, foldVars, collectorVars, analyticsVars>>

NextDetect == DetectSuspiciousPatterns

SpecDetect == InitDetect /\ [][NextDetect]_vars

\* the findings of the latest run that one sub-detector inserted
RunFindings(type) ==
  {i \in DOMAIN findings : /\ findings[i].detected_at = detectRun.count
                           /\ findings[i].pattern_type = type}

\* the sub-detector ran to its end in the latest run
Completed(name) ==
  /\ detectRun.count > 0
  /\ name \in detectRun.called \ detectRun.threw

\* the 5-second buckets of the last hour
RecentWindows == {WindowKey(r) : r \in RecentConversations(dbConversations, now)}

\* the distinct agents that posted in bucket k within the last hour
BucketAgents(k) ==
  {r.agent_id : r \in {x \in RecentConversations(dbConversations, now) :
                         x.created_at \div WINDOW_MS = k}}

\* C14: after detectCoordinatedPosting has run, every 5-second bucket of the
\* last hour with at least three distinct agents has exactly one
\* coordinated_posting finding of that run, with severity medium, confidence
\* 75 and the bucket's distinct agents, and every coordinated_posting finding
\* of the run belongs to such a bucket.
C14_OneFindingPerCoordinatedBucket ==
  Completed("coordinated_posting") =>
    /\ \A k \in RecentWindows :
         Cardinality(BucketAgents(k)) >= 3 =>
           Cardinality({i \in RunFindings("coordinated_posting") :
                          findings[i].evidence = k * WINDOW_MS}) = 1
    /\ \A i \in RunFindings("coordinated_posting") :
         \E k \in RecentWindows :
           /\ findings[i].evidence = k * WINDOW_MS
           /\ Cardinality(BucketAgents(k)) >= 3
           /\ findings[i].agent_ids = BucketAgents(k)
           /\ findings[i].severity = "medium"
           /\ findings[i].confidence_score = 75

\* three distinct agents posted in one bucket, a fourth message of one of
\* them is in another bucket, and the run produced exactly one finding with
\* the three agents
C14_Witness ==
  /\ Completed("coordinated_posting")
  /\ Cardinality(RunFindings("coordinated_posting")) = 1
  /\ \E i \in RunFindings("coordinated_posting") :
       Cardinality(findings[i].agent_ids) = 3
  /\ Cardinality(RecentWindows) = 2
  /\ \E k \in RecentWindows :
       Cardinality({r \in dbConversations : WindowKey(r) = k}) > Cardinality(BucketAgents(k))

\* the connected components of the undirected graph of the strong edges
StrongComponents ==
  LET strong == StrongInteractions(interactions)
  IN  {Dfs(strong, {n}) : n \in GraphNodes(strong)}

\* C15: after detectSuspiciousClusters has run, every connected component of
\* the strong-edge graph with at least three members has exactly one
\* network_cluster finding of that run, with severity high from five members
\* on and medium below, and confidence min(95, 60 + 5 * size); no other
\* network_cluster finding is made.
C15_OneFindingPerComponent ==
  Completed("network_cluster") =>
    /\ \A c \in StrongComponents :
         Cardinality(c) >= 3 =>
           Cardinality({i \in RunFindings("network_cluster") :
                          findings[i].agent_ids = c}) = 1
    /\ \A i \in RunFindings("network_cluster") :
         LET size == Cardinality(findings[i].agent_ids)
         IN  /\ findings[i].agent_ids \in StrongComponents
             /\ size >= 3
             /\ findings[i].severity = (IF size >= 5 THEN "high" ELSE "medium")
             /\ findings[i].confidence_score = (IF 60 + 5 * size < 95 THEN 60 + 5 * size ELSE 95)

\* C18: in a detection run in which one sub-detector threw, each of the four
\* sub-detectors was still called.
C18_FailureDoesNotStopOthers ==
  (detectRun.count > 0 /\ detectRun.threw # {}) =>
    detectRun.called = {Detectors[i] : i \in DOMAIN Detectors}

----------------------------------------------------------------------------
(* Growth tracking: the SQL function update_agent_growth over the agents    *)
(* and agent_growth_tracking tables.                                        *)

MaxDays == 2

GrowthAgents == {1, 2}

\* total_messages values an agent can reach: none, the documented 10 / 70 /
\* 71, the 60 that is exactly 500 percent above 10, and a pair whose growth
\* lies between 500 and 500.005 percent
TotalMessages == {0, 10, 60, 70, 71, 20001, 120007}

\* a NUMERIC value n / d rounded to the nearest integer, halves away from zero
RoundNumeric(n, d) ==
  IF n >= 0 THEN (n + d \div 2) \div d ELSE 0 - ((d \div 2 - n) \div d)

\* growth measured against today's total
GrowthRateOverToday(total, prev) ==
  IF prev > 0 /\ total > 0 THEN RoundNumeric((total - prev) * 100 * RateScale, total)
  ELSE 0

\* CASE WHEN prev.total_messages > 0 THEN ((agt.total_messages -
\* prev.total_messages)::NUMERIC / prev.total_messages) * 100 ELSE 0 END,
\* stored in growth_rate NUMERIC(10,2)
GrowthRate(total, prev) ==
  IF prev > 0 THEN RoundNumeric((total - prev) * 100 * RateScale, prev) ELSE 0

\* CASE WHEN prev.total_messages > 0 AND (...) * 100 > 500 THEN false ELSE true
\* END, on the quotient before it is stored
IsOrganic(total, prev) == ~(prev > 0 /\ (total - prev) * 100 > 500 * prev)

\* INSERT ... SELECT FROM agents ... ON CONFLICT (agent_id, date) DO UPDATE:
\* today's row of every agent takes the agent's counters; a new row has no
\* growth_rate and is_organic DEFAULT true
SnapshotToday(growth, agents, date) ==
  {g \in growth : ~(g.date = date /\ g.agent_id \in DOMAIN agents)}
  \cup {IF \E g \in growth : g.agent_id = a /\ g.date = date
        THEN [(CHOOSE g \in growth : g.agent_id = a /\ g.date = date)
                EXCEPT !.total_messages = agents[a].total_messages]
        ELSE GrowthRow(a, date, agents[a].total_messages, Null, TRUE)
        : a \in DOMAIN agents}

\* UPDATE agent_growth_tracking agt SET growth_rate, is_organic FROM prev
\* WHERE agt.agent_id = prev.agent_id AND agt.date = CURRENT_DATE: only the
\* rows that join a row of the day before are touched
CalculateGrowth(growth, date) ==
  {IF g.date = date /\ \E q \in growth : q.agent_id = g.agent_id /\ q.date = date - 1
   THEN LET prev == CHOOSE q \in growth : q.agent_id = g.agent_id /\ q.date = date - 1
        IN  [g EXCEPT !.growth_rate = Val(GrowthRate(g.total_messages, prev.total_messages)),
                      !.is_organic  = IsOrganic(g.total_messages, prev.total_messages)]
   ELSE g : g \in growth}

InitGrowth ==
  /\ agentsTable = <<>>
  /\ growthTable = {}
  /\ today = 1
  /\ interactions = {}
  /\ storedMsgs = {}
  /\ passed = <<>>
  /\ converted = {}
  /\ conversationThreads = <<>>
  /\ metrics = NoMetrics
  /\ findings = <<>>
  /\ detectRun = NoRun
  /\ conversations = <<>>
  /\ profiles = <<>>
  /\ foldPc = "loaded"
  /\ dbConversations = {}
  /\ dbCursor = 0
  /\ AnalyticsParked
  /\ CollectorParked
  /\ content = {}
  /\ tsResult = NoResult
  /\ jsResult = NoResult

\* upsertAgent and updateAgentStatistics after stored conversations: the
\* agent's row exists and its total_messages is the count of its rows, which
\* only grows
AgentStatisticsUpdated ==
  /\ \E a \in GrowthAgents, n \in TotalMessages :
       LET agents == UpsertAgent(agentsTable, a, AgentName(a))
       IN  /\ n >= agents[a].total_messages
           /\ agentsTable' = [agents EXCEPT ![a] = [@ EXCEPT !.total_messages = n]]
  /\ UNCHANGED <<conversations, profiles, foldPc, dbConversations, dbCursor>>
  /\ UNCHANGED databaseVars
  /\ UNCHANGED <<classifierVars, collectorVars, analyticsVars>>

\* updateGrowthTracking: supabase.rpc('update_agent_growth')
UpdateAgentGrowth ==
  /\ growthTable' = CalculateGrowth(SnapshotToday(growthTable, agentsTable, today), today)
  /\ UNCHANGED <<interactions, storedMsgs, findings, detectRun, today>>
  /\ UNCHANGED <<metrics, conversationThreads, converted, passed>>
  /\ UNCHANGED <<classifierVars, foldVars, collectorVars, analyticsVars>>

\* CURRENT_DATE moves to the next day
NextDay ==
  /\ today < MaxDays
  /\ today' = today + 1
  /\ UNCHANGED <<interactions, storedMsgs, findings, detectRun, growthTable>>
  /\ UNCHANGED <<metrics, conversationThreads, converted, passed>>
  /\ UNCHANGED <<classifierVars, foldVars, collectorVars, analyticsVars>>

NextGrowth == AgentStatisticsUpdated \/ UpdateAgentGrowth \/ NextDay

SpecGrowth == InitGrowth /\ [][NextGrowth]_vars

\* the snapshot row of the same agent on the day before
HasYesterday(g) ==
  \E q \in growthTable : q.agent_id = g.agent_id /\ q.date = g.date - 1

Yesterday(g) ==
  CHOOSE q \in growthTable : q.agent_id = g.agent_id /\ q.date = g.date - 1

\* rate, in hundredths, is within half a hundredth of the exact percentage
\* (total - prev) / prev * 100
IsRounded(rate, total, prev) ==
  /\ rate * prev - (total - prev) * 100 * RateScale <= prev \div 2
  /\ (total - prev) * 100 * RateScale - rate * prev <= prev \div 2

\* C16: a snapshot row whose agent has a row for the day before holds
\* growth_rate = (today - yesterday) / yesterday * 100 to two decimals and
\* is_organic = (that percentage <= 500, before rounding); yesterday 10 and
\* today 60 give 500 and organic, today 70 gives 600 and not organic, today
\* 71 gives 610 and not organic; yesterday 0 gives growth_rate 0 (and
\* organic).
C16_GrowthRateFormula ==
  \A g \in growthTable :
    HasYesterday(g) =>
      LET total == g.total_messages
          prev  == Yesterday(g).total_messages
      IN  /\ g.growth_rate # Null
          /\ prev > 0 => /\ IsRounded(g.growth_rate[1], total, prev)
                         /\ g.is_organic = ((total - prev) * 100 <= 500 * prev)
          /\ (prev = 10 /\ total = 60) =>
               (g.growth_rate = <<500 * RateScale>> /\ g.is_organic = TRUE)
          /\ (prev = 10 /\ total = 70) =>
               (g.growth_rate = <<600 * RateScale>> /\ g.is_organic = FALSE)
          /\ (prev = 10 /\ total = 71) =>
               (g.growth_rate = <<610 * RateScale>> /\ g.is_organic = FALSE)
          /\ prev = 0 => (g.growth_rate = <<0>> /\ g.is_organic = TRUE)

\* a row for 10 -> 70 and a row for a growth that rounds down to 500.00
\* have been computed
C16_Witness ==
  /\ \E g \in growthTable :
       /\ HasYesterday(g) /\ Yesterday(g).total_messages = 10
       /\ g.total_messages = 70 /\ g.is_organic = FALSE
  /\ \E g \in growthTable :
       /\ HasYesterday(g) /\ Yesterday(g).total_messages = 20001
       /\ g.total_messages = 120007
       /\ g.growth_rate = <<500 * RateScale>> /\ g.is_organic = FALSE

\* C16 as stated: yesterday 10 and today 70 give 500 and organic, today 71
\* gives 510 and not organic, and is_organic is read off the growth_rate
C16_AsStated ==
  \A g \in growthTable :
    HasYesterday(g) =>
      LET total == g.total_messages
          prev  == Yesterday(g).total_messages
      IN  /\ g.growth_rate # Null
          /\ prev > 0 => /\ IsRounded(g.growth_rate[1], total, prev)
                         /\ g.is_organic = (g.growth_rate[1] <= 500 * RateScale)
          /\ (prev = 10 /\ total = 70) =>
               (g.growth_rate = <<500 * RateScale>> /\ g.is_organic = TRUE)
          /\ (prev = 10 /\ total = 71) =>
               (g.growth_rate = <<510 * RateScale>> /\ g.is_organic = FALSE)
          /\ prev = 0 => g.growth_rate = <<0>>

\* C17: a snapshot row whose agent has no row for the day before holds
\* growth_rate 0 and is_organic true.
C17_NoYesterdayGivesZero ==
  \A g \in growthTable :
    ~HasYesterday(g) => (g.growth_rate = <<0>> /\ g.is_organic = TRUE)

----------------------------------------------------------------------------
(* Loading a log that holds a bad line, and failed loads, in                *)
(* AnalyticsService.loadData.                                               *)

\* C19: after loadData has read the file, the conversations it serves are
\* exactly the well-formed lines of what it read, in order: an unparseable
\* line is skipped and every other line is kept.
C19_BadLineSkippedOnly ==
  lastLoad.kind \in {"installed", "parseError"} =>
    conversations = ParsedLines(lastLoad.read)

\* C20: after a load that failed (missing file, read error or parse error)
\* while conversations were held, the overview computed by the read path is
\* still that of the conversations held before the load.
C20_FailedLoadKeepsState ==
  (lastLoad.kind \in {"missing", "readError", "parseError"} /\ lastLoad.held # <<>>) =>
    Overview(conversations) = Overview(lastLoad.held)

\* C21: after a completed reload, and until the next load ends, every view
\* served - from the cache or computed - is the view of the conversations
\* the reload installed, never an entry computed before the reload.
C21_ReloadInvalidatesCache ==
  lastLoad.kind = "installed" =>
    /\ ServedOverview = Overview(lastLoad.read)
    /\ ServedBehavior = BehaviorDistribution(lastLoad.read)

\* a reload replaced one held line by two lines, and both views have been
\* requested and cached since
C21_Witness ==
  /\ lastLoad.kind = "installed"
  /\ Len(lastLoad.held) = 1
  /\ Len(lastLoad.read) = 2
  /\ CacheHit("overview")
  /\ CacheHit("behavior")

----------------------------------------------------------------------------
(* Publishing: RealtimeAnalyticsService.updateAllMetrics over the agent     *)
(* list of AnalyticsService.getTopAgents. profiles is the array held under  *)
(* the cache key of getTopAgents(10) while foldPc = "queried".              *)

RECURSIVE InsertByField(_, _, _)
\* place p after every profile whose field is at least as large (stable order)
InsertByField(p, sorted, field) ==
  IF sorted = <<>> THEN <<p>>
  ELSE IF sorted[1][field] >= p[field]
       THEN <<sorted[1]>> \o InsertByField(p, Tail(sorted), field)
       ELSE <<p>> \o sorted

RECURSIVE SortByField(_, _)
\* array.sort((a, b) => b.field - a.field): stable, and in place
SortByField(ps, field) ==
  IF ps = <<>> THEN <<>>
  ELSE InsertByField(ps[Len(ps)], SortByField(SubSeq(ps, 1, Len(ps) - 1), field), field)

\* the messages AnalyticsService can hold when the metrics are updated
HeldMessages ==
  UNION {{[i \in 1..n |-> LoadedMessage(i, f[i][1], f[i][2], 50)] :
            f \in [1..n -> MessageTypes \X AgentIds]} : n \in 0..MaxMessages}

InitMetrics ==
  /\ conversations \in HeldMessages
  /\ profiles = <<>>
  /\ foldPc = "loaded"
  /\ dbConversations = {}
  /\ agentsTable = <<>>
  /\ dbCursor = 0
  /\ content = {}
  /\ tsResult = NoResult
  /\ jsResult = NoResult
  /\ CollectorParked
  /\ AnalyticsParked
  /\ DatabaseParked

\* the cache entry of the agent list expires or is cleared by a reload
ExpireTopAgents ==
  /\ foldPc = "queried"
  /\ profiles' = <<>>
  /\ foldPc' = "loaded"
  /\ UNCHANGED <<conversations, dbConversations, agentsTable, dbCursor>>
  /\ UNCHANGED <<classifierVars, collectorVars, analyticsVars, databaseVars>>

\* updateAllMetrics: getTopAgents(10) three times in one synchronous stretch.
\* The first call returns the cached array or computes and caches it; the
\* second and third return that same array, and .sort() reorders it in
\* place, by comments and then by posts. updateMultipleMetrics then publishes
\* the three references, which are one array.
UpdateAllMetrics ==
  /\ LET topAgents   == IF foldPc = "queried" THEN profiles
                        ELSE GetTopAgents(conversations, TopAgentsLimit)
         topPosters  == SortByField(SortByField(topAgents, "comments"), "posts")
     IN  /\ profiles' = topPosters
         /\ metrics' = [top_agents |-> topPosters,
                        most_comments_agents |-> topPosters,
                        most_posts_agents |-> topPosters]
  /\ foldPc' = "queried"
  /\ UNCHANGED <<conversations, dbConversations, agentsTable, dbCursor>>
  /\ UNCHANGED <<interactions, storedMsgs, findings, detectRun, growthTable, today>>
  /\ UNCHANGED <<conversationThreads, converted, passed>>
  /\ UNCHANGED <<classifierVars, collectorVars, analyticsVars>>

NextMetrics == QueryTopAgents \/ ExpireTopAgents \/ UpdateAllMetrics

SpecMetrics == InitMetrics /\ [][NextMetrics]_vars

\* a list is in descending order of a field
IsDescending(ps, field) ==
  \A i \in DOMAIN ps : \A j \in DOMAIN ps : i < j => ps[i][field] >= ps[j][field]

\* C22: the array getTopAgents(10) serves has at most 10 profiles in
\* descending order of totalMessages on every call, and the lists published
\* as top_agents, most_comments_agents and most_posts_agents are in
\* descending order of totalMessages, comments and posts.
C22_ListsServedInOrder ==
  /\ foldPc = "queried" =>
       (Len(profiles) <= TopAgentsLimit /\ IsDescending(profiles, "totalMessages"))
  /\ metrics # NoMetrics =>
       /\ IsDescending(metrics.top_agents, "totalMessages")
       /\ IsDescending(metrics.most_comments_agents, "comments")
       /\ IsDescending(metrics.most_posts_agents, "posts")

\* C23: after detectInorganicGrowth has run, every row of today with
\* is_organic false has exactly one inorganic_growth finding of that run
\* (severity high, confidence 85), and every inorganic_growth finding of the
\* run belongs to such a row of today.
C23_FindingPerInorganicRowOfToday ==
  Completed("inorganic_growth") =>
    /\ \A g \in growthTable :
         (g.date = today /\ g.is_organic = FALSE) =>
           Cardinality({i \in RunFindings("inorganic_growth") :
                          /\ findings[i].agent_ids = {g.agent_id}
                          /\ findings[i].evidence.date = g.date}) = 1
    /\ \A i \in RunFindings("inorganic_growth") :
         /\ findings[i].severity = "high"
         /\ findings[i].confidence_score = 85
         /\ \E g \in growthTable :
              /\ g.date = today /\ g.is_organic = FALSE
              /\ findings[i].agent_ids = {g.agent_id}
              /\ findings[i].evidence.date = g.date

----------------------------------------------------------------------------
(* Thread context: ForumDatasetCollector.convertPostToEntry and             *)
(* convertCommentToEntry over the comments of one post, in the order the    *)
(* run processes them.                                                      *)

MaxComments == 4

\* the latest post.createdAt, in milliseconds
PostCreatedAt == 10000

\* post.createdAt values
PostCreatedAts == {PostCreatedAt - 300, PostCreatedAt}

\* comment.createdAt of comment i: after the post, 0.7 s apart
CommentCreatedAt(i) == PostCreatedAt + 700 * i

ThreadComments == 1..MaxComments

\* Math.round(n / d) for d > 0: halves go up
MathRound(n, d) == (2 * n + d) \div (2 * d)

\* Math.round((currentTime - lastTime) / 1000)
ResponseTime(currentTime, lastTime) == MathRound(currentTime - lastTime, 1000)

HistoryEntry(agent, at, type) ==
  [agentName |-> agent, timestamp |-> at, messageType |-> type]

InitThread ==
  /\ conversationThreads = <<>>
  /\ converted = {}
  /\ interactions = {}
  /\ storedMsgs = {}
  /\ passed = <<>>
  /\ findings = <<>>
  /\ detectRun = NoRun
  /\ growthTable = {}
  /\ today = 0
  /\ metrics = NoMetrics
  /\ FoldParked
  /\ CollectorParked
  /\ AnalyticsParked
  /\ content = {}
  /\ tsResult = NoResult
  /\ jsResult = NoResult

\* convertPostToEntry(post): the thread of the post is set to the post alone
ConvertPostToEntry ==
  /\ \E at \in PostCreatedAts :
       conversationThreads' = <<HistoryEntry("A", at, "post")>>
  /\ converted' = {}
  /\ UNCHANGED <<interactions, storedMsgs, findings, detectRun, growthTable, today,
                 metrics, passed>>
  /\ UNCHANGED <<classifierVars, foldVars, collectorVars, analyticsVars>>

\* convertCommentToEntry(comment, post) for a comment of the fetched list the
\* run has not reached yet
ConvertCommentToEntry ==
  /\ conversationThreads # <<>>
  /\ \E i \in ThreadComments \ {e.id : e \in converted} :
       LET threadHistory == conversationThreads
           responseTime  ==
             IF Len(threadHistory) > 0
             THEN Val(ResponseTime(CommentCreatedAt(i),
                                   threadHistory[Len(threadHistory)].timestamp))
             ELSE Null
           pushed == Append(threadHistory,
                            HistoryEntry("B", CommentCreatedAt(i), "comment"))
       IN  /\ conversationThreads' = pushed
           /\ converted' = converted \cup
                {[id |-> i, createdAt |-> CommentCreatedAt(i), replyToAgent |-> "A",
                  threadDepth |-> Len(pushed), responseTime |-> responseTime]}
  /\ UNCHANGED <<interactions, storedMsgs, findings, detectRun, growthTable, today,
                 metrics, passed>>
  /\ UNCHANGED <<classifierVars, foldVars, collectorVars, analyticsVars>>

NextThread == ConvertPostToEntry \/ ConvertCommentToEntry

SpecThread == InitThread /\ [][NextThread]_vars

\* C24: every comment entry has threadDepth >= 1 and, when it has a
\* responseTime, responseTime >= 0, whatever the order in which the comments
\* are processed.
C24_DepthAndResponseTimeBounds ==
  \A e \in converted :
    /\ e.threadDepth >= 1
    /\ e.responseTime # Null => e.responseTime[1] >= 0

\* C25: in every agents row, first_seen is not later than the createdAt of
\* any stored message of the agent: it is the minimum, and a message stored
\* later cannot move it forward.
C25_FirstSeenIsMinimum ==
  \A a \in DOMAIN agentsTable :
    \A msg \in storedMsgs :
      msg.agentId = a => agentsTable[a].first_seen <= msg.createdAt

\* C26: every comment row of the conversations table carries the id of the
\* comment's parent post as post_id, and a post row carries none.
C26_PostIdIsParentPost ==
  \A r \in dbConversations :
    \A msg \in storedMsgs :
      (msg.id = r.conversation_id /\ msg.type = r.type) => r.post_id = msg.postId

----------------------------------------------------------------------------
(* Progress of a collection run: every promise collectForumData awaits      *)
(* settles, by resolving or by rejecting.                                   *)

RunStep(c) ==
  \/ PostsFetched(c)
  \/ CommentsFetched(c)
  \/ SleepDone(c)
  \/ AppendDone(c)
  \/ StoreDone(c)

RunFairness == \A c \in 1..MaxRuns : WF_vars(c \in Collectors /\ RunStep(c))

SpecLive == Spec /\ RunFairness

\* C27: every collectForumData run that has set isCollecting eventually
\* ends with isCollecting = false, whether its fetches, its file append and
\* its database calls succeed or fail.
C27_RunEndsNotCollecting ==
  \A c \in 1..MaxRuns :
    (c \in Collectors /\ coll[c].isCollecting) ~>
      (c \in Collectors /\ ~coll[c].isCollecting)

\* a run whose append failed has ended (keys known, nothing on disk), and
\* the next tick was accepted and has just begun a run
C27_Witness ==
  /\ log = <<>>
  /\ coll[1].knownEntries # {}
  /\ coll[1].isCollecting
  /\ coll[1].caller = "tick"
  /\ coll[1].pc = "posts"

----------------------------------------------------------------------------
(* Overlapping loadData calls.                                              *)

\* C28: no step of overlapping loadData calls regresses the held data: a
\* load never installs fewer lines of the log than the load that installed
\* before it, and lastLoadTime never decreases except by forceReload.
C28_LoadsNeverRegress ==
  [][/\ (lastLoadTime' >= lastLoadTime \/ ForceReload)
     /\ (lastLoad.kind = "installed" /\ lastLoad'.kind = "installed"
           => Len(lastLoad'.read) >= Len(lastLoad.read))]_vars

----------------------------------------------------------------------------
(* The collection interval timers of the server.                            *)

\* a POST /api/collector/start or autoStartServices is between its first
\* await and its setInterval
StartPending ==
  \/ \E c \in Collectors : coll[c].caller \in {"start", "boot"}
  \/ bootPc = "reloading"

\* C29: under any interleaving of /api/collector/start, /api/collector/stop
\* and the auto-start at boot at most one collection interval timer is
\* active, and after a stop with no start pending or later none is active.
C29_AtMostOneCollectionTimer ==
  /\ timers <= 1
  /\ (~collectionInterval /\ collector = 0 /\ ~StartPending => timers = 0)

----------------------------------------------------------------------------
(* The collection callback of server.ts: collectForumData, forceReload,     *)
(* getConversations({limit: added, sortBy: 'recent'}) and                   *)
(* storeConversationToDatabase for each conversation it returns.            *)

MaxLogged == 4

MaxAdded == 2

\* createdAt of a collected message: a comment can be collected after a
\* message that was created later (its fetch failed in an earlier run)
CollectedCreatedAts == {1, 2, 3}

CollectedMessage(i, at) == [LoadedMessage(i, "post", 1, 50) EXCEPT !.createdAt = at]

\* the k entries a run appends to a log of n lines: allEntries, sorted by
\* createdAt, oldest first
NewEntries(n, k) ==
  {[i \in 1..k |-> CollectedMessage(n + i, at[i])] :
     at \in {f \in [1..k -> CollectedCreatedAts] :
               \A i, j \in 1..k : i < j => f[i] <= f[j]}}

\* getConversations({limit, sortBy: 'recent'}).data: a copy of conversations
\* sorted by createdAt, newest first, cut to limit
GetConversations(convs, limit) ==
  LET filtered == SortByField(convs, "createdAt")
  IN  SubSeq(filtered, 1, IF limit < Len(filtered) THEN limit ELSE Len(filtered))

InitSelect ==
  /\ FoldParked
  /\ CollectorParked
  /\ AnalyticsParked
  /\ DatabaseParked
  /\ content = {}
  /\ tsResult = NoResult
  /\ jsResult = NoResult

\* one run of the callback in which collectForumData added k > 0 entries
\* and forceReload installed the log (with added = 0 nothing is passed)
CollectAndStore ==
  /\ \E k \in 1..MaxAdded : \E entries \in NewEntries(Len(log), k) :
       /\ Len(log) + k <= MaxLogged
       /\ log' = log \o entries
       /\ conversations' = log'
       /\ lastLoad' = LoadEnded("installed", log')
       /\ passed' = GetConversations(conversations', k)
  /\ fileMtime' = fileMtime + 1
  /\ lastLoadTime' = fileMtime'
  /\ cache' = ClearCache(cache)
  /\ UNCHANGED <<now, loads>>
  /\ UNCHANGED <<profiles, foldPc, dbConversations, agentsTable, dbCursor>>
  /\ UNCHANGED <<upstream, collector, collectionInterval, timers, bootPc,
                 nCollectors, runs, coll>>
  /\ UNCHANGED <<interactions, storedMsgs, findings, detectRun, growthTable, today,
                 metrics, conversationThreads, converted>>
  /\ UNCHANGED classifierVars

NextSelect == CollectAndStore

SpecSelect == InitSelect /\ [][NextSelect]_vars

\* C30: after a collection run that added k > 0 messages the conversations
\* passed to storeConversationToDatabase are exactly the k lines the run
\* appended to the log, whatever their createdAt values.
C30_PassedAreTheNewMessages ==
  passed # <<>> =>
    {passed[i] : i \in DOMAIN passed}
      = {log[i] : i \in (Len(log) - Len(passed) + 1)..Len(log)}

====
